---- MODULE Spec2Model ----
(***************************************************************************)
(* Model of Http3Upstream (src/src/shrpx_http3_upstream.cc): the           *)
(* per-connection state machine that terminates QUIC + HTTP/3 and bridges  *)
(* request streams to downstream connections.                              *)
(*                                                                         *)
(* The module holds several specifications over one set of variables:      *)
(*   Spec      request dispatch: Downstream objects, the DownstreamQueue,  *)
(*             downstream connection events, stream close and promotion    *)
(*   SpecHdr   request header reception and its limits                     *)
(*   SpecAck   response body: append, surrender to HTTP/3, write, ack,     *)
(*             drain                                                       *)
(*   SpecConn  connection lifecycle: on_read dispositions, handle_error,   *)
(*             graceful shutdown, idle close, on_handler_delete            *)
(*                                                                         *)
(* Handlers are operators over a record (the "world") holding the state   *)
(* they read and write and the value they return; an action applies one    *)
(* handler to the current state with the answers of its collaborators      *)
(* (libraries, backend, peer) as inputs.                                   *)
(***************************************************************************)
EXTENDS Integers, Sequences, FiniteSets, TLC

\* ----------------------------------------------------------------- bounds
\* Number of client bidirectional request streams the peer opens.
NumStreams == 3
\* downstream_queue_size(): connections_per_frontend / connections_per_host.
QueueCap == 1
\* httpconf.max_request_header_fields
MaxRequestHeaderFields == 2
\* httpconf.request_header_field_buffer
RequestHeaderFieldBuffer == 3
\* Largest name+value length of one header field offered by the peer.
MaxFieldLen == 2
\* Retries after which Downstream::no_more_retry holds.
MaxRetry == 1
\* Response body bytes a backend delivers for one request.
MaxBody == 2
\* Length of the HTML page error_reply appends to the response body.
ErrorHtmlLen == 1
\* iovecs nghttp3 offers the response data source in one call.
MaxVec == 2
\* Connection IDs the transport issues over the life of a connection.
MaxCid == 2
\* Largest probe timeout, in ticks.
MaxPto == 2
\* Full-size packets the transport has ready in one write_streams call.
MaxPkts == 11
\* Latest reading of the clock and of the transport's expiries, in
\* nanoseconds.
MaxClock == 3

\* -------------------------------------------------------------- constants
\* SHRPX_ERR_RETRY
ErrRetry == -2
\* NGHTTP3_ERR_WOULDBLOCK
Nghttp3ErrWouldblock == -103
\* NGHTTP3_ERR_CALLBACK_FAILURE
Nghttp3ErrCallbackFailure == -902
\* NGTCP2_ERR_CALLBACK_FAILURE
Ngtcp2ErrCallbackFailure == -502
\* SHRPX_QUIC_MAX_UDP_PAYLOAD_SIZE, the max UDP payload size an Upstream
\* starts with
ShrpxQuicMaxUdpPayloadSize == 1452
\* NGTCP2_MAX_UDP_PAYLOAD_SIZE
Ngtcp2MaxUdpPayloadSize == 1200
\* 64_k, the cap on the send quantum and the size of the write buffer
SendQuantumCap == 65536
ScratchBufferSize == 65536
\* packets per write_streams call unless the congestion controller is BBR
MaxPktcntNoBbr == 10
\* the size of write_streams' array of nghttp3_vec
NumVec == 16
\* 1e-9 s, the shortest timer, in nanoseconds
MinTimer == 1

Streams == 1..NumStreams

Min(a, b) == IF a < b THEN a ELSE b

VARIABLES
  ds,      \* Downstream objects, by stream
  dq,      \* DownstreamQueue: the list of Downstreams and the blocked links
  h3s,     \* nghttp3's view of each request stream: idle / hdr / req / fin /
           \* closed
  h3tx,    \* response body bytes nghttp3 and ngtcp2 hold, by stream
  up,      \* the Upstream's connection-level members and its ngtcp2_conn
  net,     \* the worker around it: CID registry, close-wait, datagrams sent
  rv       \* return value of the last handler or callback

vars == <<ds, dq, h3s, h3tx, up, net, rv>>

\* on_downstream_body_complete on a Downstream: met is what it found
\* ("NONE" before the call, see on_downstream_body_complete), upgraded
\* Downstream::get_upgraded, shut the code it shut the stream down with,
\* trailers whether it submitted trailers, resumed whether it resumed the
\* stream.
NoBodyComplete ==
  [met |-> "NONE", upgraded |-> FALSE, shut |-> "NONE", trailers |-> FALSE,
   resumed |-> FALSE]

\* ------------------------------------------------------------- Downstream
\* req.path: the value of a :path field, as it is (rewrite FALSE) or passed
\* through http2::rewrite_clean_path (rewrite TRUE); a fresh request has the
\* empty path.
NoPath == [rewrite |-> FALSE, value |-> ""]

\* req.fs: the header fields http_end_request_headers looks up; "NONE" or
\* FALSE for a field that is not there.
NoFields ==
  [method |-> "NONE", authority |-> FALSE, host |-> FALSE, path |-> "NONE",
   protocol |-> "NONE"]

\* The request of a Downstream as http_end_request_headers fills it in.
\*   authority   where req.authority comes from: "AUTHORITY" (:authority),
\*               "HOST" (host) or "NONE" (not assigned)
NoRequest ==
  [fs |-> NoFields, method |-> "NONE", authority |-> "NONE",
   no_authority |-> FALSE, path |-> NoPath, connect_proto |-> "NONE"]

\* A Downstream that does not exist (before begin_request_headers, after
\* remove_downstream destroyed it).
\*   recv_body_length      response body bytes received from the backend
\*   body_len, body_mark   the response buffer: bytes held, and how many of
\*                         them were surrendered to nghttp3
\*   drained               bytes drain_mark dropped from the buffer
\*   resumed               bytes passed to Downstream::resume_read
\*   drain_failed          assert(datalen == drained) failed
\*   submitted             status of the response submitted to nghttp3
\*   info                  status of the last non-final response submitted
\*   striphd_flags         the header stripping applied to the submitted
\*                         response
\*   shutdown_code         code of the first shutdown_stream on the stream
\*   canceled              the connection was popped on DCONN_CANCELED
\*   offered_fields/bytes  request header fields the peer sent, whether
\*                         accepted or not
\*   started               start_downstream was called
\*   bc                    what on_downstream_body_complete met and did
\*   promoted_by           for a Downstream promoted from the blocked list:
\*                         the dispatch state of the Downstream whose
\*                         removal promoted it
NoDownstream ==
  [ dispatch_state   |-> "NONE",
    dconn            |-> FALSE,
    request_state    |-> "INITIAL",
    response_state   |-> "INITIAL",
    http_status      |-> 0,
    submitted        |-> 0,
    info             |-> 0,
    striphd_flags    |-> {},
    req              |-> NoRequest,
    recv_body_length |-> 0,
    unconsumed_body_length |-> 0,
    response_sent_body_length |-> 0,
    body_len         |-> 0,
    body_mark        |-> 0,
    drained          |-> 0,
    resumed          |-> 0,
    drain_failed     |-> FALSE,
    shutdown_code    |-> "NONE",
    connection_close |-> FALSE,
    stop_reading     |-> FALSE,
    canceled         |-> FALSE,
    num_retry        |-> 0,
    num_fields       |-> 0,
    buffer_size      |-> 0,
    offered_fields   |-> 0,
    offered_bytes    |-> 0,
    started          |-> FALSE,
    promoted_by      |-> "NONE",
    bc               |-> NoBodyComplete ]

\* The configuration the request handlers consult: config->http2_proxy and
\* the frontend address's alt_mode ("NONE", or "API" for an alternative
\* mode).
\* udp_segment: the build has UDP_SEGMENT; bbr: the congestion controller
\* is NGTCP2_CC_ALGO_BBR.
DefaultConfig ==
  [http2_proxy |-> TRUE, alt_mode |-> "NONE", udp_segment |-> TRUE,
   bbr |-> FALSE]

Configs ==
  { [DefaultConfig EXCEPT !.http2_proxy = p, !.alt_mode = a] :
      p \in BOOLEAN, a \in {"NONE", "API"} }

TxConfigs ==
  { [DefaultConfig EXCEPT !.udp_segment = g, !.bbr = b] :
      g \in BOOLEAN, b \in BOOLEAN }

\* What the clock and the transport answer a handler: ts quic_timestamp,
\* idle_ts ngtcp2_conn_get_idle_expiry, expiry_ts ngtcp2_conn_get_expiry.
DefaultClock == [ts |-> 0, idle_ts |-> 2, expiry_ts |-> 1]

Clocks == [ts : 0..MaxClock, idle_ts : 0..MaxClock, expiry_ts : 0..MaxClock]

\* What quic_send_packet answers: "OK" or the errno of the failure.
SendResults == {"OK", "EINVAL", "EMSGSIZE", "EAGAIN"}

\* What nghttp3 and ngtcp2 hold of a stream's response body.
\*   pending   bytes surrendered by the data source, not yet written
\*   inflight  bytes written to QUIC, not yet acknowledged
\*   acked     bytes QUIC acknowledged
\*   forwarded bytes of acknowledgement passed to nghttp3_conn_add_ack_offset
\*             (whether or not the call succeeded)
\*   eof       the data source signalled NGHTTP3_DATA_FLAG_EOF
\*   accepted  bytes of the stream ngtcp2_conn_writev_stream accepted
\*   blocked   nghttp3 holds the stream blocked (nghttp3_conn_block_stream)
\*   shut_wr   nghttp3 shut the stream's write side down
\*   shut_rd   nghttp3 shut the stream's read side down
\*   stop      the code of the last ngtcp2_conn_shutdown_stream_read that
\*             http_stop_sending made with success
\*   reset     the code of the last ngtcp2_conn_shutdown_stream_write that
\*             http_reset_stream made with success
NoTx == [pending |-> 0, inflight |-> 0, acked |-> 0, forwarded |-> 0,
         eof |-> FALSE, accepted |-> 0, blocked |-> FALSE, shut_wr |-> FALSE,
         shut_rd |-> FALSE, stop |-> "NONE", reset |-> "NONE"]

\* The stream cancellation callback that ran in this step: which one, for
\* which stream, the application error code it was given and what the
\* library call it made returned.
NoCancel == [by |-> "NONE", stream |-> 0, code |-> "NONE", liberr |-> "OK"]

\* The turns of write_streams' loop that went round again in this step:
\* the stream they served, its write offset in nghttp3 before them, the
\* transport's answers in order and the bytes it accepted in the last call;
\* failed names the library call that made the run fail.
NoTurns ==
  [stream |-> 0, before |-> 0, turns |-> <<>>, k |-> 0, failed |-> "OK"]

\* What the response data source met and did in this step; stream 0: it
\* was not called.
NoDataRead ==
  [stream |-> 0, eof |-> FALSE, left0 |-> 0, len0 |-> 0, wtimer |-> "NONE",
   n |-> 0, shut_rd |-> FALSE, ret |-> 0]

\* What the collaborators answer during initiate_downstream:
\*   getconn      get_downstream_connection (after the attach loop): "OK",
\*                "TLS_REQUIRED" or "FAIL"
\*   redirectable the request can be redirected to https
\*   mruby        per-backend request hook: "OK", "FAIL" or "COMPLETE" (the
\*                hook completed the response itself); "OK" without mruby
\*   push_ok      push_request_headers succeeded
\*   eu           end_upload_data: "NONE" (a body is expected, not called),
\*                "OK" or "FAIL"
\*   reply        see ReplyOutcomes
DefaultInitiate ==
  [getconn |-> "OK", redirectable |-> FALSE, mruby |-> "OK",
   push_ok |-> TRUE, eu |-> "NONE", reply |-> "OK"]

\* The initiate_downstream of this step: the Downstream, the caller
\* ("start": start_downstream, "remove": remove_downstream), what
\* can_activate answered and what the collaborators answered; stream 0:
\* none.
NoInitiate ==
  [stream |-> 0, by |-> "NONE", can |-> FALSE, e |-> DefaultInitiate]

\* The failure or reset of a backend connection handled in this step;
\* stream 0: none.
NoFailure ==
  [stream |-> 0, events |-> "NONE", response_state |-> "INITIAL",
   shutdown_code |-> "NONE", header_sent |-> FALSE, upgraded |-> FALSE,
   reply |-> "OK"]

\* What on_downstream_reset meets:
\*   no_retry       the caller forbids a retry
\*   unsent         the request was not sent yet (or is still pending)
\*   getconn        get_downstream_connection: "OK", "TLS_REQUIRED", "FAIL"
\*   redirectable, push_ok, reply as in InitiateEnv
DefaultReset ==
  [no_retry |-> FALSE, unsent |-> TRUE, getconn |-> "OK",
   redirectable |-> FALSE, push_ok |-> TRUE, reply |-> "OK"]

\* What on_downstream_reset found in this step; stream 0: it was not
\* called.
NoReset ==
  [stream |-> 0, r |-> DefaultReset, active |-> FALSE, ready |-> FALSE,
   num_retry |-> 0, shutdown_code |-> "NONE"]

\* What on_read met in this step: the result of ngtcp2_conn_read_pkt, the
\* last_error_ its switch found and the datagrams sent before it; "NONE" if
\* the step read no datagram.
NoRead ==
  [res |-> "NONE", prior |-> [type |-> "Transport", code |-> "NO_ERROR"],
   sent |-> 0]

\* What the transport keeps for a request stream: the bytes it received on
\* it, the stream-level flow control credit extended for it
\* (ngtcp2_conn_extend_max_stream_offset), the bytes nghttp3 holds back for
\* a later deferred_consume, and the calls of
\* ngtcp2_conn_extend_max_streams_bidi made at its close.
NoFlow ==
  [received |-> 0, max_stream_offset |-> 0, deferred |-> 0,
   streams_bidi |-> 0]

\* The on_write of this step: whether it ran, and the time and the
\* transport's expiry it ran under.
NoOnWrite == [ran |-> FALSE, ts |-> 0, expiry |-> 0]

\* The http_stream_close of this step: the unconsumed body length it found
\* and the one it left; stream 0: it was not called.
NoClose == [stream |-> 0, unconsumed |-> 0, left |-> 0]

\* The recv_data callback of this step: the chunk, whether
\* push_upload_data_chunk took it, and what the callback found (the
\* response state, the shutdown code, the credit already extended); stream
\* 0: it was not called.  nconsumed: the bytes nghttp3_conn_read_stream
\* reported consumed in this step.
NoRecv ==
  [stream |-> 0, datalen |-> 0, pushed |-> FALSE,
   response_state |-> "INITIAL", shutdown_code |-> "NONE",
   max_stream_offset |-> 0, max_offset |-> 0, nconsumed |-> 0]

\* The state a handler reads and writes, the value it returns (ret) and the
\* library call whose failure it is handling (err, "OK" if none).  he_called
\* tells whether the handler went through handle_error, sendrv what its
\* quic_send_packet calls returned ("NONE" if it made none), h3null whether
\* it called nghttp3 with a null httpconn_, null_ds whether a callback
\* dereferenced the null user data of a stream without Downstream.  snd and clk
\* are what quic_send_packet and the clock answer the handler.
World ==
  [ds |-> ds, dq |-> dq, tx |-> h3tx,
   up |-> [up EXCEPT !.he_called = FALSE, !.sendrv = "NONE",
               !.rd = NoRead, !.rdc = NoDataRead,
               !.rst = NoReset, !.ini = NoInitiate,
               !.dfail = NoFailure, !.wt = NoTurns,
               !.can = NoCancel, !.rcv = NoRecv, !.cls = NoClose, !.ow = NoOnWrite,
               !.null_ds = FALSE,
               !.h3null = FALSE],
   net |-> net,
   ret |-> 0, err |-> "OK", snd |-> "OK", clk |-> DefaultClock]

\* The handler's world under the answers snd and clk.
WorldOf(snd, clk) == [World EXCEPT !.snd = snd, !.clk = clk]

Commit(w) ==
  /\ ds' = w.ds
  /\ dq' = w.dq
  /\ h3tx' = w.tx
  /\ up' = w.up
  /\ net' = w.net
  /\ rv' = w.ret

Ret(w, r) == [w EXCEPT !.ret = r]

\* Records the library call that failed; the first failure of a handler is
\* the one it reports.
Failed(w, call) == [w EXCEPT !.err = IF @ = "OK" THEN call ELSE @]

\* -------------------------------------------------------- DownstreamQueue
NumActive(w) ==
  Cardinality({x \in w.dq.downstreams : w.ds[x].dispatch_state = "ACTIVE"})

add_pending(w, d) ==
  [w EXCEPT !.dq.downstreams = @ \cup {d},
            !.ds[d] = [NoDownstream EXCEPT !.dispatch_state = "PENDING"],
            !.tx[d] = NoTx]

mark_active(w, d) == [w EXCEPT !.ds[d].dispatch_state = "ACTIVE"]

mark_blocked(w, d) ==
  [w EXCEPT !.ds[d].dispatch_state = "BLOCKED",
            !.dq.blocked = Append(@, d)]

mark_failure(w, d) == [w EXCEPT !.ds[d].dispatch_state = "FAILURE"]

can_activate(w) == NumActive(w) < QueueCap

\* Removes and destroys d; ret is the blocked Downstream to promote, 0 if none.
remove_and_get_blocked(w, d) ==
  LET w1 == [w EXCEPT !.dq.downstreams = @ \ {d},
                      !.dq.blocked = SelectSeq(@, LAMBDA x : x # d),
                      !.ds[d] = NoDownstream,
                      !.tx[d] = NoTx]
  IN IF Len(w1.dq.blocked) > 0 /\ NumActive(w1) < QueueCap
       THEN [w1 EXCEPT !.dq.blocked = Tail(@), !.ret = Head(w1.dq.blocked)]
       ELSE Ret(w1, 0)

\* ---------------------------------------------------- response ring buffer
append(w, d, n) == [w EXCEPT !.ds[d].body_len = @ + n]

rleft_mark(w, d) == w.ds[d].body_len - w.ds[d].body_mark

\* Surrenders up to veccnt one-byte iovecs past the mark; ret is their count.
riovec_mark(w, d, veccnt) ==
  LET n == Min(rleft_mark(w, d), veccnt)
  IN [w EXCEPT !.ds[d].body_mark = @ + n, !.ret = n]

\* Drops up to n surrendered bytes; ret is the count dropped.
drain_mark(w, d, n) ==
  LET k == Min(n, w.ds[d].body_mark)
  IN [w EXCEPT !.ds[d].body_len = @ - k, !.ds[d].body_mark = @ - k, !.ret = k]

\* ------------------------------------------------------ replies and resets
\* ngtcp2_conn_shutdown_stream: the first application error code sticks.
shutdown_stream(w, d, code) ==
  [w EXCEPT !.ds[d].shutdown_code = IF @ = "NONE" THEN code ELSE @]

\* reply: how the submission went: "OK", "SUBMIT_FAIL"
\* (nghttp3_conn_submit_response failed fatally) or "SHUT_RD_FAIL"
\* (shutdown_stream_read failed fatally after the submission).
ReplyOutcomes == {"OK", "SUBMIT_FAIL", "SHUT_RD_FAIL"}

error_reply(w, d, status, reply) ==
  LET w1 == [append(w, d, ErrorHtmlLen)
               EXCEPT !.ds[d].http_status = status,
                      !.ds[d].response_state = "MSG_COMPLETE"]
  IN IF reply = "SUBMIT_FAIL"
       THEN Ret(w1, -1)
       ELSE Ret([w1 EXCEPT !.ds[d].submitted = status],
                IF reply = "SHUT_RD_FAIL" THEN -1 ELSE 0)

send_reply(w, d, bodylen, reply) ==
  IF reply = "SUBMIT_FAIL"
    THEN Ret(w, -1)
    ELSE Ret([append(w, d, bodylen)
                EXCEPT !.ds[d].submitted = w.ds[d].http_status,
                       !.ds[d].response_state = "MSG_COMPLETE"],
             IF reply = "SHUT_RD_FAIL" THEN -1 ELSE 0)

\* redirectable: the request is not a regular CONNECT, its scheme is http and
\* its authority has a host.
redirect_to_https(w, d, redirectable, reply) ==
  IF ~redirectable
    THEN error_reply(w, d, 400, reply)
    ELSE send_reply([w EXCEPT !.ds[d].http_status = 308], d, 0, reply)

on_downstream_abort_request(w, d, status, reply) ==
  LET w1 == error_reply(w, d, status, reply)
  IN IF w1.ret # 0 THEN Ret(w1, -1) ELSE Ret(w1, 0)

on_downstream_abort_request_with_https_redirect(w, d, redirectable, reply) ==
  LET w1 == redirect_to_https(w, d, redirectable, reply)
  IN IF w1.ret # 0 THEN Ret(w1, -1) ELSE Ret(w1, 0)

pop_downstream_connection(w, d) == [w EXCEPT !.ds[d].dconn = FALSE]

detach_downstream_connection(w, d) == [w EXCEPT !.ds[d].dconn = FALSE]

\* Downstream::can_detach_downstream_connection: only a Downstream whose
\* response is complete gives its connection back to the pool.
can_detach_downstream_connection(w, d, keepalive) ==
  /\ w.ds[d].dconn
  /\ w.ds[d].response_state = "MSG_COMPLETE"
  /\ ~w.ds[d].connection_close
  /\ keepalive

\* Downstream::request_submission_ready: the request can still be submitted
\* again (headers complete, not yet sent or still pending, no response yet).
request_submission_ready(w, d, unsent) ==
  /\ w.ds[d].request_state \in {"HEADER_COMPLETE", "MSG_COMPLETE"}
  /\ unsent
  /\ w.ds[d].response_state = "INITIAL"

add_retry(w, d) ==
  [w EXCEPT !.ds[d].num_retry = IF @ <= MaxRetry THEN @ + 1 ELSE @]

no_more_retry(w, d) == w.ds[d].num_retry > MaxRetry

\* --------------------------------------------------------------- admission
\* The answers the collaborators can give during initiate_downstream.
InitiateEnv ==
  { [DefaultInitiate EXCEPT !.eu = u] : u \in {"NONE", "OK", "FAIL"} }
  \cup
  { [DefaultInitiate EXCEPT !.getconn = "FAIL", !.reply = r] :
      r \in ReplyOutcomes }
  \cup
  { [DefaultInitiate EXCEPT !.getconn = "TLS_REQUIRED", !.redirectable = x,
                            !.reply = r] :
      x \in BOOLEAN, r \in ReplyOutcomes }
  \cup
  { [DefaultInitiate EXCEPT !.mruby = "FAIL", !.reply = r] :
      r \in ReplyOutcomes }
  \cup
  { [DefaultInitiate EXCEPT !.mruby = "COMPLETE"] }
  \cup
  { [DefaultInitiate EXCEPT !.push_ok = FALSE, !.reply = r] :
      r \in ReplyOutcomes }

\* The admission answers are consulted only when a Downstream is initiated.
InitiateEnvIf(initiates) == IF initiates THEN InitiateEnv ELSE {DefaultInitiate}

ShutdownIfFailed(w, d) ==
  IF w.ret # 0 THEN shutdown_stream(w, d, "H3_INTERNAL_ERROR") ELSE w

initiate_downstream(w, d, e) ==
  IF e.getconn # "OK"
    THEN LET w1 == IF e.getconn = "TLS_REQUIRED"
                     THEN redirect_to_https(w, d, e.redirectable, e.reply)
                     ELSE error_reply(w, d, 502, e.reply)
             w2 == ShutdownIfFailed(w1, d)
             w3 == [w2 EXCEPT !.ds[d].request_state = "CONNECT_FAIL"]
         IN Ret(mark_failure(w3, d), 0)
    ELSE LET wa == [w EXCEPT !.ds[d].dconn = TRUE]
         IN IF e.mruby = "FAIL"
              THEN Ret(mark_failure(
                         ShutdownIfFailed(error_reply(wa, d, 500, e.reply), d),
                         d), 0)
            ELSE IF e.mruby = "COMPLETE"
              THEN Ret([wa EXCEPT !.ds[d].response_state = "MSG_COMPLETE"], 0)
            ELSE IF ~e.push_ok
              THEN Ret(mark_failure(
                         ShutdownIfFailed(error_reply(wa, d, 502, e.reply), d),
                         d), 0)
            ELSE LET wb == mark_active(wa, d)
                 IN IF e.eu = "FAIL"
                      THEN Ret(shutdown_stream(wb, d, "H3_INTERNAL_ERROR"), 0)
                      ELSE Ret(wb, 0)

\* A start that initiates the Downstream without asking the queue.
start_downstream_unchecked(w, d, e) ==
  initiate_downstream([w EXCEPT !.ds[d].started = TRUE], d, e)

\* A start that marks the Downstream active as soon as it has a connection.
start_downstream_eager(w, d, e) ==
  LET w0 == [w EXCEPT !.ds[d].started = TRUE,
                      !.up.ini = [stream |-> d, by |-> "start",
                                  can |-> can_activate(w), e |-> e]]
  IN IF can_activate(w0)
       THEN LET w1 == initiate_downstream(w0, d, e)
            IN IF e.getconn = "OK" THEN mark_active(w1, d) ELSE w1
       ELSE Ret(mark_blocked(w0, d), 0)

start_downstream(w, d, e) ==
  LET w0 == [w EXCEPT !.ds[d].started = TRUE,
                      !.up.ini = [stream |-> d, by |-> "start",
                                  can |-> can_activate(w), e |-> e]]
  IN IF can_activate(w0)
       THEN initiate_downstream(w0, d, e)
       ELSE Ret(mark_blocked(w0, d), 0)

\* A removal that forgets the blocked Downstream the queue hands back.
remove_downstream_forgetful(w, d, e) ==
  Ret(remove_and_get_blocked(w, d), 0)

remove_downstream(w, d, e) ==
  LET w1 == remove_and_get_blocked(w, d)
  IN IF w1.ret # 0
       THEN initiate_downstream(
              [w1 EXCEPT !.ds[w1.ret].promoted_by = w.ds[d].dispatch_state,
                         !.up.ini = [stream |-> w1.ret, by |-> "remove",
                                     can |-> TRUE, e |-> e]],
              w1.ret, e)
       ELSE w1

\* A consume that extends the stream-level window only.
consume_stream_only(w, d, nconsumed) ==
  [w EXCEPT !.up.quic[d].max_stream_offset = @ + nconsumed]

\* Credits nconsumed bytes of stream d to the stream-level and the
\* connection-level flow control window.
consume(w, d, nconsumed) ==
  [w EXCEPT !.up.quic[d].max_stream_offset = @ + nconsumed,
            !.up.max_offset = @ + nconsumed]

\* ngtcp2_conn_extend_max_streams_bidi(conn_, 1), called as stream d
\* closes.
ngtcp2_conn_extend_max_streams_bidi(w, d) ==
  [w EXCEPT !.up.quic[d].streams_bidi = @ + 1]

\* The Downstream of a closing stream goes: its connection is detached if
\* it can be kept alive.
close_downstream(w, d, keepalive, e) ==
  IF w.ds[d].request_state = "CONNECT_FAIL"
    THEN Ret(remove_downstream(w, d, e), 0)
    ELSE LET w1 == IF can_detach_downstream_connection(w, d, keepalive)
                     THEN detach_downstream_connection(w, d)
                     ELSE w
             w2 == [w1 EXCEPT !.ds[d].request_state = "STREAM_CLOSED"]
         IN Ret(remove_downstream(w2, d, e), 0)

\* The unconsumed request body of the closing stream d is credited and
\* the counter cleared, before the Downstream goes.
consume_unconsumed(w, d, unconsumed) ==
  LET w1 == [consume(w, d, unconsumed)
               EXCEPT !.ds[d].unconsumed_body_length = 0]
  IN [w1 EXCEPT !.up.cls = [stream |-> d, unconsumed |-> unconsumed,
                            left |-> w1.ds[d].unconsumed_body_length]]

http_stream_close(w, d, keepalive, e) ==
  close_downstream(
    ngtcp2_conn_extend_max_streams_bidi(
      consume_unconsumed(w, d, w.ds[d].unconsumed_body_length), d),
    d, keepalive, e)

\* The stream_close callback of nghttp3; a stream without Downstream has
\* null user data.
http_stream_close_cb(w, d, keepalive, e) ==
  IF d \notin w.dq.downstreams THEN Ret(w, 0)
  ELSE LET w1 == http_stream_close(w, d, keepalive, e)
       IN IF w1.ret # 0 THEN Ret(w1, Nghttp3ErrCallbackFailure) ELSE Ret(w1, 0)

\* ------------------------------------------------------- downstream events
\* The header stripping of a final response: HDOP_STRIP_ALL without
\* HDOP_STRIP_VIA.
StripAllButVia == {"HDOP_STRIP_ALL & ~HDOP_STRIP_VIA"}

\* A header completion that forwards every status as it is.
on_downstream_header_complete_verbatim(w, d, non_final, reply) ==
  IF non_final
    THEN IF reply = "SUBMIT_FAIL"
           THEN Ret(w, -1)
           ELSE Ret([w EXCEPT !.ds[d].info = w.ds[d].http_status], 0)
  ELSE IF reply = "SUBMIT_FAIL"
    THEN Ret(w, -1)
    ELSE Ret([w EXCEPT !.ds[d].submitted = w.ds[d].http_status,
                       !.ds[d].striphd_flags = StripAllButVia],
             IF reply = "SHUT_RD_FAIL" THEN -1 ELSE 0)

\* non_final: Downstream::get_non_final_response.
on_downstream_header_complete(w, d, non_final, reply) ==
  IF non_final
    THEN IF reply = "SUBMIT_FAIL"
           THEN Ret(w, -1)
           ELSE Ret([w EXCEPT !.ds[d].info = w.ds[d].http_status], 0)
  ELSE IF reply = "SUBMIT_FAIL"
    THEN Ret(w, -1)
    ELSE LET websocket == /\ w.ds[d].req.connect_proto = "WEBSOCKET"
                          /\ w.ds[d].http_status = 101
         IN Ret([w EXCEPT
                   !.ds[d].submitted =
                     IF websocket THEN 200 ELSE w.ds[d].http_status,
                   !.ds[d].striphd_flags =
                     IF websocket
                       THEN StripAllButVia
                              \cup {"HDOP_STRIP_SEC_WEBSOCKET_ACCEPT"}
                       ELSE StripAllButVia],
                IF reply = "SHUT_RD_FAIL" THEN -1 ELSE 0)

on_downstream_body(w, d, len) ==
  Ret([append(w, d, len) EXCEPT !.ds[d].recv_body_length = @ + len], 0)

\* A completion that resumes the stream whatever the body length.
on_downstream_body_complete_lenient(w, d, upgraded, body) ==
  LET met == [NoBodyComplete EXCEPT !.met = body, !.upgraded = upgraded]
  IN IF ~upgraded /\ body = "TRAILER_FAIL"
       THEN Ret([w EXCEPT !.ds[d].bc = met], -1)
     ELSE Ret([w EXCEPT !.ds[d].bc =
                 [met EXCEPT !.trailers = ~upgraded /\ body = "TRAILERS",
                             !.resumed = TRUE]], 0)

\* body: "BADLEN" the received body length violates the declared content
\* length; "TRAILERS" the response has trailers to submit; "TRAILER_FAIL"
\* it has, and nghttp3_conn_submit_trailers fails; "OK" it has none.
on_downstream_body_complete(w, d, upgraded, body) ==
  LET met == [NoBodyComplete EXCEPT !.met = body, !.upgraded = upgraded]
  IN IF body = "BADLEN"
       THEN Ret([shutdown_stream(w, d, "H3_GENERAL_PROTOCOL_ERROR")
                   EXCEPT !.ds[d].connection_close = TRUE,
                          !.ds[d].bc =
                            [met EXCEPT !.shut = "H3_GENERAL_PROTOCOL_ERROR"]],
                0)
     ELSE IF ~upgraded /\ body = "TRAILER_FAIL"
       THEN Ret([w EXCEPT !.ds[d].bc = met], -1)
     ELSE Ret([w EXCEPT !.ds[d].bc =
                 [met EXCEPT !.trailers = ~upgraded /\ body = "TRAILERS",
                             !.resumed = TRUE]], 0)

\* What a downstream connection event meets:
\*   upgraded     Downstream::get_upgraded
\*   header_sent  Downstream::get_request_header_sent
\*   body         see on_downstream_body_complete
\*   reply        see ReplyOutcomes
\*   keepalive    the connection may go back to the pool
\*   len          response body bytes read
\*   status       the status of the response whose header completes
\*   non_final    Downstream::get_non_final_response
\* DefaultEvent is the plain case; EventEnv(w, d, ev, cap, RS) holds, for
\* the event ev on d, the answers that lead the handlers to each of their
\* branches, with bodies of up to cap bytes and the response heads RS.
DefaultEvent ==
  [upgraded |-> FALSE, header_sent |-> TRUE, body |-> "OK",
   reply |-> "OK", keepalive |-> FALSE, len |-> 0, status |-> 200,
   non_final |-> FALSE]

\* The head of a plain response.
PlainResponse == {[status |-> 200, non_final |-> FALSE]}

EventEnv(w, d, ev, cap, RS) ==
  CASE ev = "DATA" ->
         {DefaultEvent, [DefaultEvent EXCEPT !.keepalive = TRUE]}
         \cup
         { [DefaultEvent EXCEPT !.len = n] :
             n \in IF w.ds[d].response_state = "HEADER_COMPLETE"
                     THEN 1..(cap - w.ds[d].recv_body_length)
                     ELSE {} }
    [] ev = "HEADER" ->
         { [DefaultEvent EXCEPT !.reply = r, !.status = a.status,
                                !.non_final = a.non_final] :
             r \in ReplyOutcomes, a \in RS }
    [] ev = "BAD_HEADER" ->
         { [DefaultEvent EXCEPT !.reply = r] : r \in ReplyOutcomes }
    [] ev = "EOF" ->
         { [DefaultEvent EXCEPT !.reply = r] : r \in ReplyOutcomes }
         \cup
         {[DefaultEvent EXCEPT !.header_sent = FALSE],
          [DefaultEvent EXCEPT !.upgraded = TRUE],
          [DefaultEvent EXCEPT !.body = "BADLEN"],
          [DefaultEvent EXCEPT !.body = "TRAILERS"],
          [DefaultEvent EXCEPT !.body = "TRAILER_FAIL"]}
    [] ev \in {"ERROR", "TIMEOUT"} ->
         { [DefaultEvent EXCEPT !.reply = r, !.header_sent = h] :
             r \in ReplyOutcomes, h \in BOOLEAN }
         \cup
         {[DefaultEvent EXCEPT !.upgraded = TRUE],
          [DefaultEvent EXCEPT !.upgraded = TRUE, !.body = "BADLEN"]}
    [] ev = "COMPLETE" ->
         {DefaultEvent,
          [DefaultEvent EXCEPT !.keepalive = TRUE],
          [DefaultEvent EXCEPT !.body = "BADLEN"],
          [DefaultEvent EXCEPT !.body = "TRAILERS"],
          [DefaultEvent EXCEPT !.body = "TRAILER_FAIL"],
          [DefaultEvent EXCEPT !.upgraded = TRUE],
          [DefaultEvent EXCEPT !.upgraded = TRUE, !.body = "TRAILERS"]}
    [] OTHER -> {DefaultEvent}

downstream_eof(w, d, x) ==
  LET w1 == pop_downstream_connection(w, d)
  IN IF w1.ds[d].response_state = "HEADER_COMPLETE"
       THEN LET w2 == [w1 EXCEPT !.ds[d].response_state = "MSG_COMPLETE"]
                w3 == on_downstream_body_complete(w2, d, x.upgraded, x.body)
            IN IF w3.ret # 0 THEN Ret(w3, -1) ELSE Ret(w3, 0)
     ELSE IF w1.ds[d].response_state # "MSG_COMPLETE"
       THEN LET w2 == error_reply(w1, d, 502, x.reply)
            IN IF w2.ret # 0 THEN Ret(w2, -1) ELSE Ret(w2, 0)
     ELSE Ret(w1, 0)

\* What a failing or reset backend connection met on d: the event, the
\* response state and the shutdown code of the stream as it found them, and
\* the answers it got.
FailureMet(w, d, events, x) ==
  [stream |-> d, events |-> events,
   response_state |-> w.ds[d].response_state,
   shutdown_code |-> w.ds[d].shutdown_code,
   header_sent |-> x.header_sent, upgraded |-> x.upgraded,
   reply |-> x.reply]

\* An error handler that answers every failure with 502.
downstream_error_always_502(w0_, d, events, x) ==
  LET w == [w0_ EXCEPT !.up.dfail = FailureMet(w0_, d, events, x)]
      w1 == pop_downstream_connection(w, d)
      done(v) == Ret([v EXCEPT !.ds[d].response_state = "MSG_COMPLETE"], 0)
  IN IF w1.ds[d].response_state = "MSG_COMPLETE"
       THEN IF x.upgraded
              THEN Ret(shutdown_stream(w1, d, "H3_NO_ERROR"), 0)
              ELSE Ret(w1, 0)
     ELSE IF w1.ds[d].response_state = "HEADER_COMPLETE"
       THEN IF x.upgraded
              THEN LET w2 == on_downstream_body_complete(w1, d, x.upgraded,
                                                         x.body)
                   IN IF w2.ret # 0 THEN Ret(w2, -1) ELSE done(w2)
              ELSE done(shutdown_stream(w1, d, "H3_INTERNAL_ERROR"))
     ELSE LET w2 == error_reply(w1, d, 502, x.reply)
          IN IF w2.ret # 0 THEN Ret(w2, -1) ELSE done(w2)

\* events: "ERROR" (EVENT_ERROR) or "TIMEOUT" (EVENT_TIMEOUT)
downstream_error(w0_, d, events, x) ==
  LET w == [w0_ EXCEPT !.up.dfail = FailureMet(w0_, d, events, x)]
      w1 == pop_downstream_connection(w, d)
      done(v) == Ret([v EXCEPT !.ds[d].response_state = "MSG_COMPLETE"], 0)
  IN IF w1.ds[d].response_state = "MSG_COMPLETE"
       THEN IF x.upgraded
              THEN Ret(shutdown_stream(w1, d, "H3_NO_ERROR"), 0)
              ELSE Ret(w1, 0)
     ELSE IF w1.ds[d].response_state = "HEADER_COMPLETE"
       THEN IF x.upgraded
              THEN LET w2 == on_downstream_body_complete(w1, d, x.upgraded,
                                                         x.body)
                   IN IF w2.ret # 0 THEN Ret(w2, -1) ELSE done(w2)
              ELSE done(shutdown_stream(w1, d, "H3_INTERNAL_ERROR"))
     ELSE LET status == IF events = "TIMEOUT"
                          THEN IF x.header_sent THEN 504 ELSE 408
                          ELSE 502
              w2 == error_reply(w1, d, status, x.reply)
          IN IF w2.ret # 0 THEN Ret(w2, -1) ELSE done(w2)

infer_upstream_shutdown_stream_error_code(downstream_error_code) ==
  CASE downstream_error_code = "NGHTTP2_NO_ERROR" -> "H3_NO_ERROR"
    [] downstream_error_code = "NGHTTP2_REFUSED_STREAM" -> "H3_REQUEST_REJECTED"
    [] OTHER -> "H3_INTERNAL_ERROR"

\* ev: what downstream_read finds.
\*   a reset code    the backend reset the stream: response state MSG_RESET
\*   "BAD_HEADER"    response state MSG_BAD_HEADER
\*   otherwise the outcome of Downstream::on_read():
\*   "DATA" (0, body bytes or nothing), "HEADER" (response headers complete,
\*   on_downstream_header_complete ran), "COMPLETE" (response body
\*   complete, on_downstream_body_complete ran), "EOF", "CANCELED"
\*   (SHRPX_ERR_DCONN_CANCELED), "ERROR"
ResetCodes == {"NGHTTP2_NO_ERROR", "NGHTTP2_REFUSED_STREAM", "NGHTTP2_CANCEL"}

ReadEvents ==
  {"BAD_HEADER", "DATA", "HEADER", "COMPLETE", "EOF", "CANCELED", "ERROR"}
    \cup ResetCodes

downstream_read(w, d, ev, x) ==
  IF ev \in ResetCodes
    THEN LET w1 == [w EXCEPT !.ds[d].response_state = "MSG_RESET",
                             !.up.dfail = FailureMet(w, d, ev, x)]
             w2 == shutdown_stream(
                     w1, d, infer_upstream_shutdown_stream_error_code(ev))
         IN Ret(pop_downstream_connection(w2, d), 0)
  ELSE IF ev = "BAD_HEADER"
    THEN LET w1 == [w EXCEPT !.ds[d].response_state = "MSG_BAD_HEADER"]
             w2 == error_reply(w1, d, 502, x.reply)
         IN IF w2.ret # 0
              THEN Ret(w2, -1)
              ELSE Ret(pop_downstream_connection(w2, d), 0)
  ELSE IF ev = "EOF"
    THEN IF x.header_sent THEN downstream_eof(w, d, x) ELSE Ret(w, ErrRetry)
  ELSE IF ev = "CANCELED"
    THEN Ret([pop_downstream_connection(w, d)
                EXCEPT !.ds[d].canceled = TRUE], 0)
  ELSE IF ev = "ERROR"
    THEN downstream_error(w, d, "ERROR", x)
  ELSE LET w1 == IF ev = "HEADER"
                   THEN on_downstream_header_complete(
                          [w EXCEPT !.ds[d].response_state =
                                      IF x.non_final
                                        THEN @ ELSE "HEADER_COMPLETE",
                                    !.ds[d].http_status = x.status],
                          d, x.non_final, x.reply)
                 ELSE IF ev = "COMPLETE"
                   THEN on_downstream_body_complete(
                          [w EXCEPT !.ds[d].response_state = "MSG_COMPLETE"],
                          d, x.upgraded, x.body)
                 ELSE on_downstream_body(w, d, x.len)
       IN IF w1.ret # 0
            THEN downstream_error(w1, d, "ERROR", x)
          ELSE IF can_detach_downstream_connection(w1, d, x.keepalive)
            THEN Ret(detach_downstream_connection(w1, d), 0)
          ELSE Ret(w1, 0)

\* The answers on_downstream_reset can meet.
ResetEnv ==
  {DefaultReset, [DefaultReset EXCEPT !.unsent = FALSE]}
  \cup
  { [DefaultReset EXCEPT !.no_retry = TRUE, !.reply = r] :
      r \in ReplyOutcomes }
  \cup
  { [DefaultReset EXCEPT !.getconn = "FAIL", !.reply = r] :
      r \in ReplyOutcomes }
  \cup
  { [DefaultReset EXCEPT !.getconn = "TLS_REQUIRED", !.redirectable = x,
                         !.reply = r] : x \in BOOLEAN, r \in ReplyOutcomes }
  \cup
  { [DefaultReset EXCEPT !.push_ok = FALSE, !.reply = r] :
      r \in ReplyOutcomes }

\* A fail path that also marks the Downstream failed, as initiate_downstream
\* does on the same failures.
ResetFailMarksFailure(w, d, tls_required, r) ==
  LET w1 == IF tls_required
              THEN on_downstream_abort_request_with_https_redirect(
                     w, d, r.redirectable, r.reply)
              ELSE on_downstream_abort_request(w, d, 502, r.reply)
      w2 == ShutdownIfFailed(w1, d)
  IN Ret(mark_failure(pop_downstream_connection(w2, d), d), 0)

\* The fail: label of on_downstream_reset.
ResetFail(w, d, tls_required, r) ==
  LET w1 == IF tls_required
              THEN on_downstream_abort_request_with_https_redirect(
                     w, d, r.redirectable, r.reply)
              ELSE on_downstream_abort_request(w, d, 502, r.reply)
      w2 == ShutdownIfFailed(w1, d)
  IN Ret(pop_downstream_connection(w2, d), 0)

\* A reset handler that pops the connection of a request it cannot submit
\* again without shutting the upstream stream down.
on_downstream_reset_keeps_stream(w, d, r) ==
  IF w.ds[d].dispatch_state # "ACTIVE"
    THEN Ret(pop_downstream_connection(w, d), 0)
  ELSE IF ~request_submission_ready(w, d, r.unsent)
    THEN Ret(pop_downstream_connection(w, d), 0)
  ELSE LET w1 == add_retry(pop_downstream_connection(w, d), d)
       IN IF r.no_retry \/ no_more_retry(w1, d)
            THEN ResetFail(w1, d, FALSE, r)
          ELSE IF r.getconn # "OK"
            THEN ResetFail(w1, d, r.getconn = "TLS_REQUIRED", r)
          ELSE LET w2 == [w1 EXCEPT !.ds[d].dconn = TRUE]
               IN IF r.push_ok THEN Ret(w2, 0) ELSE ResetFail(w2, d, FALSE, r)

\* What on_downstream_reset found when it was called for d under r.
ResetMet(w, d, r) ==
  [stream |-> d, r |-> r,
   active |-> w.ds[d].dispatch_state = "ACTIVE",
   ready |-> request_submission_ready(w, d, r.unsent),
   num_retry |-> w.ds[d].num_retry,
   shutdown_code |-> w.ds[d].shutdown_code]

\* A reset handler that retries without counting the retry.
on_downstream_reset_uncounted(w0_, d, r) ==
  LET w == [w0_ EXCEPT !.up.rst = ResetMet(w0_, d, r)]
  IN IF w.ds[d].dispatch_state # "ACTIVE"
       THEN Ret(pop_downstream_connection(w, d), 0)
     ELSE IF ~request_submission_ready(w, d, r.unsent)
       THEN IF w.ds[d].response_state = "MSG_COMPLETE"
              THEN Ret(pop_downstream_connection(w, d), 0)
              ELSE Ret(pop_downstream_connection(
                         shutdown_stream(w, d, "H3_INTERNAL_ERROR"), d), 0)
     ELSE LET w1 == pop_downstream_connection(w, d)
          IN IF r.no_retry \/ no_more_retry(w1, d)
               THEN ResetFail(w1, d, FALSE, r)
             ELSE IF r.getconn # "OK"
               THEN ResetFail(w1, d, r.getconn = "TLS_REQUIRED", r)
             ELSE LET w2 == [w1 EXCEPT !.ds[d].dconn = TRUE]
                  IN IF r.push_ok THEN Ret(w2, 0)
                     ELSE ResetFail(w2, d, FALSE, r)

on_downstream_reset(w0_, d, r) ==
  LET w == [w0_ EXCEPT !.up.rst = ResetMet(w0_, d, r)]
  IN IF w.ds[d].dispatch_state # "ACTIVE"
       THEN Ret(pop_downstream_connection(w, d), 0)
     ELSE IF ~request_submission_ready(w, d, r.unsent)
       THEN IF w.ds[d].response_state = "MSG_COMPLETE"
              THEN Ret(pop_downstream_connection(w, d), 0)
              ELSE Ret(pop_downstream_connection(
                         shutdown_stream(w, d, "H3_INTERNAL_ERROR"), d), 0)
     ELSE LET w1 == add_retry(pop_downstream_connection(w, d), d)
          IN IF r.no_retry \/ no_more_retry(w1, d)
               THEN ResetFail(w1, d, FALSE, r)
             ELSE IF r.getconn # "OK"
               THEN ResetFail(w1, d, r.getconn = "TLS_REQUIRED", r)
             ELSE LET w2 == [w1 EXCEPT !.ds[d].dconn = TRUE]
                  IN IF r.push_ok THEN Ret(w2, 0)
                     ELSE ResetFail(w2, d, FALSE, r)

\* -------------------------------------------------------------- connection
\* Connection IDs: the hashed CID and the IDs the transport issues.
HashedCid == 0

Cids == 0..MaxCid

\* conn_close_: empty, resized to SHRPX_QUIC_CONN_CLOSE_PKTLEN but not
\* written ("BLANK"), or holding a CONNECTION_CLOSE of a kind and code.
EmptyPacket == [kind |-> "EMPTY", code |-> "NONE"]

BlankPacket == [kind |-> "BLANK", code |-> "NONE"]

\* A timer: the duration it was last armed with, in nanoseconds (0: not
\* armed yet), from the clock reading ts and the expiry the transport
\* reported.
NoTimer == [repeat |-> 0, ts |-> 0, expiry |-> 0]

\* A run of write_streams: the quotient of the send quantum and the max UDP
\* payload size, the max_pktcnt it worked with, the iovecs it asked nghttp3
\* for, the packets the transport produced, its send_packet calls and
\* whether it called reset_idle_timer; pktcnt and buffered are the loop's
\* counter and the packets in its buffer while it runs; calls counts its
\* ngtcp2_conn_writev_stream calls, stopw and signal tell whether it
\* stopped the write watcher and whether it called signal_write. prev is
\* the path and ECN marking of the first packet in the buffer (prev_ps,
\* prev_pi), held those of each packet in the buffer, and batches lists
\* the send_packet calls: the path and ECN marking each was made with and
\* those of the packets it carried.
NoWrite ==
  [max_udp_payload_size |-> 0,
   quotient |-> 0, max_pktcnt |-> 0, veccnt |-> 0, produced |-> 0,
   pktcnt |-> 0, buffered |-> 0, sends |-> 0, rearm |-> FALSE,
   calls |-> 0, stopw |-> FALSE, signal |-> FALSE,
   prev |-> 0, held |-> <<>>, batches |-> <<>>, done |-> FALSE]

\* The Upstream after its constructor and init().
\*   alive        "alive", "deleted" (the handler was deleted) or "crashed"
\*   tx_level     highest encryption level with tx keys installed
\*   first_pkt    no packet was fed to the transport yet
\*   closing, draining   the transport's closing / draining period
\*   scids, issued       the transport's source CIDs, and how many it issued
\*   h3log        what was submitted to nghttp3 for shutdown, in order
\*   he_called    the last handler went through handle_error
\*   retry        how the transport's retry request was met
\*   idle_fired   the idle timer fired
\*   tokens       address-validation tokens submitted to the transport
\*   hs           the handshake_completed callback: whether it ran, what it
\*                returned, whether generate_token succeeded
\*   del          the circumstances of the handler deletion
\*   config       the configuration the handlers consult
\*   idle_timer, timer   idle_timer_ and timer_
\*   ws           the last run of write_streams
InitUp ==
  [ alive          |-> "alive",
    config         |-> DefaultConfig,
    max_udp_payload_size |-> ShrpxQuicMaxUdpPayloadSize,
    idle_timer     |-> NoTimer,
    timer          |-> NoTimer,
    sendrv         |-> "NONE",
    rd             |-> NoRead,
    rdc            |-> NoDataRead,
    rst            |-> NoReset,
    ini            |-> NoInitiate,
    dfail          |-> NoFailure,
    wt             |-> NoTurns,
    can            |-> NoCancel,
    rcv            |-> NoRecv,
    cls            |-> NoClose,
    ow             |-> NoOnWrite,
    quic           |-> [s \in Streams |-> NoFlow],
    max_offset     |-> 0,
    ws             |-> NoWrite,
    tx_level       |-> "INITIAL",
    httpconn       |-> FALSE,
    first_pkt      |-> TRUE,
    closing        |-> FALSE,
    draining       |-> FALSE,
    last_error     |-> [type |-> "Transport", code |-> "NO_ERROR"],
    conn_close     |-> EmptyPacket,
    idle_close     |-> FALSE,
    retry_close    |-> FALSE,
    scids          |-> {1},
    issued         |-> 1,
    prep_active    |-> TRUE,
    shutdown_timer |-> "off",
    h3log          |-> <<>>,
    he_called      |-> FALSE,
    h3null         |-> FALSE,
    null_ds        |-> FALSE,
    retry          |-> "NONE",
    idle_fired     |-> FALSE,
    tokens         |-> 0,
    hs             |-> [called |-> FALSE, ret |-> 0, token_ok |-> FALSE],
    del            |-> [pre_closed |-> FALSE, wr_ok |-> FALSE, pto |-> 0] ]

\* The worker: registry of connection IDs routed to this handler, close-wait
\* entries, datagrams sent for this connection, graceful shutdown flag.
InitNet ==
  [ registry   |-> {HashedCid, 1},
    close_wait |-> <<>>,
    sent       |-> <<>>,
    graceful   |-> FALSE ]

\* ngtcp2_err_infer_quic_transport_error_code
InferTransportCode(liberr) ==
  CASE liberr \in {"NGTCP2_ERR_REQUIRED_TRANSPORT_PARAM",
                   "NGTCP2_ERR_MALFORMED_TRANSPORT_PARAM",
                   "NGTCP2_ERR_TRANSPORT_PARAM"} -> "TRANSPORT_PARAMETER_ERROR"
    [] liberr \in {"NGTCP2_ERR_CALLBACK_FAILURE", "NGTCP2_ERR_INTERNAL",
                   "NGTCP2_ERR_NOMEM"} -> "INTERNAL_ERROR"
    [] OTHER -> "PROTOCOL_VIOLATION"

\* nghttp3_err_infer_quic_app_error_code
InferAppCode(liberr) ==
  CASE liberr = "NGHTTP3_ERR_H3_FRAME_ERROR" -> "H3_FRAME_ERROR"
    [] liberr \in {"NGHTTP3_ERR_CALLBACK_FAILURE", "NGHTTP3_ERR_NOMEM"} ->
         "H3_INTERNAL_ERROR"
    [] OTHER -> "H3_GENERAL_PROTOCOL_ERROR"

err_transport(liberr) ==
  [type |-> "Transport", code |-> InferTransportCode(liberr)]

err_application(liberr) ==
  [type |-> "Application", code |-> InferAppCode(liberr)]

\* Library calls whose failure ends the connection, by layer.
H3Calls ==
  {"nghttp3_conn_read_stream", "nghttp3_conn_writev_stream",
   "nghttp3_conn_block_stream", "nghttp3_conn_shutdown_stream_write",
   "nghttp3_conn_add_write_offset", "nghttp3_conn_close_stream",
   "nghttp3_conn_add_ack_offset", "nghttp3_conn_unblock_stream",
   "nghttp3_conn_shutdown_stream_read"}

QuicCalls ==
  {"ngtcp2_conn_read_pkt", "ngtcp2_conn_writev_stream",
   "ngtcp2_conn_handle_expiry", "ngtcp2_conn_submit_new_token"}

Layer(call) ==
  IF call \in H3Calls THEN "H3"
  ELSE IF call \in QuicCalls THEN "QUIC"
  ELSE "NONE"

\* A send that takes every failure for a too large payload.
send_packet_any_failure(w, by) ==
  [w EXCEPT
     !.net.sent =
       IF by = "write_streams" THEN @
       ELSE Append(@, [by |-> by, kind |-> w.up.conn_close.kind,
                       code |-> w.up.conn_close.code,
                       origin |-> Layer(w.err)]),
     !.up.sendrv = w.snd,
     !.up.max_udp_payload_size =
       IF w.snd # "OK" THEN Ngtcp2MaxUdpPayloadSize ELSE @]

\* quic_send_packet, answered w.snd; by names the sender.  net.sent keeps
\* the datagrams that carry the packet in conn_close_ (origin: the layer of
\* the failure being handled), not those write_streams sends.
send_packet(w, by) ==
  [w EXCEPT
     !.net.sent =
       IF by = "write_streams" THEN @
       ELSE Append(@, [by |-> by, kind |-> w.up.conn_close.kind,
                       code |-> w.up.conn_close.code,
                       origin |-> Layer(w.err)]),
     !.up.sendrv = w.snd,
     !.up.max_udp_payload_size =
       IF w.snd \in {"EINVAL", "EMSGSIZE"}
         THEN Ngtcp2MaxUdpPayloadSize ELSE @]

\* The duration a timer is armed with for the expiry the transport reports.
TimerRepeat(ts, expiry) == IF expiry > ts THEN expiry - ts ELSE MinTimer

reset_idle_timer(w) ==
  [w EXCEPT !.up.idle_timer =
     [repeat |-> TimerRepeat(w.clk.ts, w.clk.idle_ts), ts |-> w.clk.ts,
      expiry |-> w.clk.idle_ts]]

reset_timer(w) ==
  [w EXCEPT !.up.timer =
     [repeat |-> TimerRepeat(w.clk.ts, w.clk.expiry_ts), ts |-> w.clk.ts,
      expiry |-> w.clk.expiry_ts]]

\* ngtcp2_conn_write_connection_close / _application_close into
\* conn_close_: fails in the closing and draining periods
\* (NGTCP2_ERR_INVALID_STATE) and when the library cannot build the packet
\* (~wr_ok); on success the connection enters the closing period.
write_connection_close(w, kind, code, wr_ok) ==
  IF w.up.closing \/ w.up.draining \/ ~wr_ok
    THEN Ret(w, -1)
    ELSE [w EXCEPT !.up.closing = TRUE,
                   !.up.conn_close = [kind |-> kind, code |-> code],
                   !.ret = 1]

handle_error(w, wr_ok) ==
  IF w.up.closing
    THEN Ret([w EXCEPT !.up.he_called = TRUE], -1)
    ELSE LET w0 == [w EXCEPT !.up.he_called = TRUE,
                             !.up.conn_close = BlankPacket]
             w1 == IF w0.up.last_error.type = "Transport"
                     THEN write_connection_close(w0, "transport",
                                                 w0.up.last_error.code, wr_ok)
                     ELSE write_connection_close(w0, "application",
                                                 w0.up.last_error.code, wr_ok)
         IN IF w1.ret < 0
              THEN Ret(w1, -1)
              ELSE Ret(send_packet(w1, "handle_error"), -1)

\* quic_conn_handler->remove_connection_id
remove_connection_id(w, cid) == [w EXCEPT !.net.registry = @ \ {cid}]

\* quic_conn_handler->add_connection_id
add_connection_id(w, cid) == [w EXCEPT !.net.registry = @ \cup {cid}]

\* A deletion that leaves no close-wait entry behind.
add_close_wait_dropped(w, scids, period) == w

\* new CloseWait(worker, scids, conn_close_, d) and add_close_wait
add_close_wait(w, scids, period) ==
  [w EXCEPT !.net.close_wait =
      Append(@, [scids |-> scids, pkt |-> w.up.conn_close,
                 period |-> period])]

\* A deletion that skips the close only for an idle close.
on_handler_delete_idle_only(w, wr_ok, pto) ==
  LET scids == w.up.scids \cup {HashedCid}
      w1 == [w EXCEPT !.net.registry = @ \ scids]
  IN IF w1.up.idle_close
       THEN w1
     ELSE IF ~w1.up.closing /\ ~w1.up.draining
       THEN LET w2 == write_connection_close(
                        [w1 EXCEPT !.up.conn_close = BlankPacket],
                        "transport", "NO_ERROR", wr_ok)
            IN IF w2.ret < 0
                 THEN w2
                 ELSE add_close_wait(send_packet(w2, "on_handler_delete"),
                                     scids, pto * 3)
     ELSE add_close_wait(w1, scids, pto * 3)

\* A deletion that writes its CONNECTION_CLOSE whatever period the
\* connection is in.
on_handler_delete_rewrites(w, wr_ok, pto) ==
  LET scids == w.up.scids \cup {HashedCid}
      w1 == [w EXCEPT !.net.registry = @ \ scids]
  IN IF w1.up.idle_close \/ w1.up.retry_close
       THEN w1
     ELSE LET w2 == write_connection_close(
                      [w1 EXCEPT !.up.conn_close = BlankPacket],
                      "transport", "NO_ERROR", wr_ok)
          IN IF w2.ret < 0
               THEN w2
               ELSE add_close_wait(send_packet(w2, "on_handler_delete"),
                                   scids, pto * 3)

\* pto: ngtcp2_conn_get_pto
on_handler_delete(w, wr_ok, pto) ==
  LET scids == w.up.scids \cup {HashedCid}
      w1 == [w EXCEPT !.net.registry = @ \ scids]
  IN IF w1.up.idle_close \/ w1.up.retry_close
       THEN w1
     ELSE IF ~w1.up.closing /\ ~w1.up.draining
       THEN LET w2 == write_connection_close(
                        [w1 EXCEPT !.up.conn_close = BlankPacket],
                        "transport", "NO_ERROR", wr_ok)
            IN IF w2.ret < 0
                 THEN w2
                 ELSE add_close_wait(send_packet(w2, "on_handler_delete"),
                                     scids, pto * 3)
     ELSE add_close_wait(w1, scids, pto * 3)

\* What the deletion of the handler meets: whether the transport can write a
\* CONNECTION_CLOSE, and its probe timeout.
DeleteEnv == [wr_ok : BOOLEAN, pto : 1..MaxPto]

\* delete handler: the ClientHandler destructor runs on_handler_delete and
\* the Upstream is gone.  on_handler_delete returns nothing: the handler
\* that led here keeps its return value.
DeleteHandler(w, e) ==
  LET w1 == on_handler_delete(w, e.wr_ok, e.pto)
  IN [w1 EXCEPT !.ret = w.ret,
                !.up.alive = "deleted",
                !.up.prep_active = FALSE,
                !.up.shutdown_timer = IF @ = "armed" THEN "off" ELSE @,
                !.up.del = [pre_closed |-> w.up.closing \/ w.up.draining,
                            wr_ok |-> e.wr_ok, pto |-> e.pto]]

idle_close(w) == [w EXCEPT !.up.idle_close = TRUE]

\* An idle timeout that deletes the handler without marking the idle close.
idle_timeoutcb_unmarked(w, e) == DeleteHandler(w, e)

idle_timeoutcb(w, e) == DeleteHandler(idle_close(w), e)

\* ------------------------------------------------------- graceful shutdown
\* Calling nghttp3 with a null connection handle is undefined: the process
\* crashes, or the call returns an error or returns as if nothing happened.
NullHandleOutcomes == {"CRASH", "ERROR", "NO_EFFECT"}

\* ok: nghttp3_conn_submit_shutdown_notice succeeded; ub: the outcome of the
\* call when httpconn_ is null.
start_graceful_shutdown(w, ok, ub) ==
  IF w.up.shutdown_timer = "armed"
    THEN Ret(w, 0)
    ELSE LET arm(v) == Ret([v EXCEPT !.up.shutdown_timer = "armed"], 0)
         IN IF ~w.up.httpconn
              THEN IF ub = "CRASH"
                     THEN Ret([w EXCEPT !.up.alive = "crashed",
                                        !.up.h3null = TRUE], 0)
                   ELSE IF ub = "ERROR"
                     THEN Ret([w EXCEPT !.up.h3null = TRUE], -1)
                   ELSE arm([w EXCEPT !.up.h3null = TRUE])
            ELSE IF ~ok THEN Ret(w, -1)
            ELSE arm([w EXCEPT !.up.h3log = Append(@, "NOTICE")])

check_shutdown(w, ok, ub) ==
  IF ~w.net.graceful
    THEN Ret(w, 0)
    ELSE start_graceful_shutdown([w EXCEPT !.up.prep_active = FALSE], ok, ub)

\* ok: nghttp3_conn_shutdown succeeded
submit_goaway(w, ok, ub) ==
  IF ~w.up.httpconn
    THEN IF ub = "CRASH"
           THEN Ret([w EXCEPT !.up.alive = "crashed", !.up.h3null = TRUE], 0)
         ELSE IF ub = "ERROR" THEN Ret([w EXCEPT !.up.h3null = TRUE], -1)
         ELSE Ret([w EXCEPT !.up.h3null = TRUE], 0)
  ELSE IF ~ok THEN Ret(w, -1)
  ELSE Ret([w EXCEPT !.up.h3log = Append(@, "GOAWAY")], 0)

prepare_cb(w, ok, ub, e) ==
  LET w1 == check_shutdown(w, ok, ub)
  IN IF w1.ret # 0 /\ w1.up.alive = "alive" THEN DeleteHandler(w1, e) ELSE w1

shutdown_timeout_cb(w, ok, ub, e) ==
  LET w1 == submit_goaway([w EXCEPT !.up.shutdown_timer = "fired"], ok, ub)
  IN IF w1.ret # 0 /\ w1.up.alive = "alive" THEN DeleteHandler(w1, e) ELSE w1

\* ---------------------------------------------------------- request headers
\* A begin_request_headers that makes no Downstream for the stream.
http_begin_request_headers_no_downstream(w, d) == Ret(w, 0)

http_begin_request_headers(w, d) == Ret(add_pending(w, d), 0)

\* The stream user data of d in nghttp3: set to the Downstream where it is
\* made, to null where remove_downstream takes it from the queue.
stream_user_data(w, d) == d \in w.dq.downstreams

\* A callback dereferences null stream user data.  What follows is
\* undefined (two of the callbacks assert the pointer, which aborts where
\* assertions are compiled in); the Upstream is followed no further.
null_downstream(w) ==
  Ret([w EXCEPT !.up.alive = "crashed", !.up.null_ds = TRUE], 0)

\* A header check that admits one field more than the limit.
http_recv_request_header_off_by_one(w, d, len, trailer, reply) ==
  IF \/ w.ds[d].buffer_size + len > RequestHeaderFieldBuffer
     \/ w.ds[d].num_fields > MaxRequestHeaderFields
    THEN LET w1 == [w EXCEPT !.ds[d].stop_reading = TRUE]
         IN IF w1.ds[d].response_state = "MSG_COMPLETE" THEN Ret(w1, 0)
            ELSE IF trailer THEN Ret(w1, 0)
            ELSE LET w2 == error_reply(w1, d, 431, reply)
                 IN IF w2.ret # 0 THEN Ret(w2, -1) ELSE Ret(w2, 0)
    ELSE Ret([w EXCEPT !.ds[d].num_fields = @ + 1,
                       !.ds[d].buffer_size = @ + len], 0)

\* len: length of the field's name plus value.
http_recv_request_header(w, d, len, trailer, reply) ==
  IF \/ w.ds[d].buffer_size + len > RequestHeaderFieldBuffer
     \/ w.ds[d].num_fields >= MaxRequestHeaderFields
    THEN LET w1 == [w EXCEPT !.ds[d].stop_reading = TRUE]
         IN IF w1.ds[d].response_state = "MSG_COMPLETE" THEN Ret(w1, 0)
            ELSE IF trailer THEN Ret(w1, 0)
            ELSE LET w2 == error_reply(w1, d, 431, reply)
                 IN IF w2.ret # 0 THEN Ret(w2, -1) ELSE Ret(w2, 0)
    ELSE Ret([w EXCEPT !.ds[d].num_fields = @ + 1,
                       !.ds[d].buffer_size = @ + len], 0)

\* What http_end_request_headers finds in the header block and around it:
\*   method     "UNKNOWN" when lookup_method_token knows no such method
\*   authority  a :authority field is there
\*   host       a host field is there
\*   path       the value of :path, "NONE" if there is none
\*   protocol   the value of :protocol, "NONE" if there is none
\*   mruby      the request hook: "OK", "FAIL", or "COMPLETE" (it completed
\*              the response)
\*   reply      see ReplyOutcomes
DefaultHeaders ==
  [method |-> "GET", authority |-> TRUE, host |-> FALSE, path |-> "/",
   protocol |-> "NONE", mruby |-> "OK", reply |-> "OK"]

\* A header block for each way http_end_request_headers can go.
HeaderVerdicts ==
  {DefaultHeaders,
   [DefaultHeaders EXCEPT !.method = "UNKNOWN"],
   [DefaultHeaders EXCEPT !.authority = FALSE, !.host = TRUE],
   [DefaultHeaders EXCEPT !.method = "CONNECT", !.protocol = "other"],
   [DefaultHeaders EXCEPT !.mruby = "FAIL"],
   [DefaultHeaders EXCEPT !.mruby = "COMPLETE"]}

\* The header blocks that are answered with an error reply.
Answered(h) ==
  h.method = "UNKNOWN" \/ h.protocol = "other" \/ h.mruby = "FAIL"

\* The verdicts with the reply outcomes that matter to each.
HeaderEnv ==
  HeaderVerdicts
  \cup
  { [h EXCEPT !.reply = r] :
      h \in {x \in HeaderVerdicts : Answered(x)}, r \in ReplyOutcomes }

\* A check that looks for :authority only after falling back to host.
requires_authority_after_host(w, h) ==
  /\ h.method # "CONNECT"
  /\ w.up.config.http2_proxy
  /\ w.up.config.alt_mode = "NONE"
  /\ ~h.authority /\ ~h.host

\* "For HTTP/2 proxy, we require :authority": the request is refused.
requires_authority(w, h) ==
  /\ h.method # "CONNECT"
  /\ w.up.config.http2_proxy
  /\ w.up.config.alt_mode = "NONE"
  /\ ~h.authority

\* A path assignment that keeps the asterisk of a server-wide OPTIONS.
request_path_keeps_asterisk(w, d, h) ==
  IF h.path = "NONE" THEN w.ds[d].req.path
  ELSE IF h.method = "OPTIONS" /\ h.path = "*"
    THEN [rewrite |-> FALSE, value |-> h.path]
  ELSE IF w.up.config.http2_proxy /\ w.up.config.alt_mode = "NONE"
    THEN [rewrite |-> FALSE, value |-> h.path]
  ELSE [rewrite |-> TRUE, value |-> h.path]

\* req.path after the header block.
request_path(w, d, h) ==
  IF h.path = "NONE" THEN w.ds[d].req.path
  ELSE IF h.method = "OPTIONS" /\ h.path = "*"
    THEN w.ds[d].req.path
  ELSE IF w.up.config.http2_proxy /\ w.up.config.alt_mode = "NONE"
    THEN [rewrite |-> FALSE, value |-> h.path]
  ELSE [rewrite |-> TRUE, value |-> h.path]

\* The header fields of the block h.
Fields(h) ==
  [method |-> h.method, authority |-> h.authority, host |-> h.host,
   path |-> h.path, protocol |-> h.protocol]

http_end_request_headers(w0_, d, h, e) ==
  LET w == [w0_ EXCEPT !.ds[d].req.fs = Fields(h)]
  IN
  IF w0_.ds[d].response_state = "MSG_COMPLETE" THEN Ret(w0_, 0)
  ELSE IF h.method = "UNKNOWN" THEN error_reply(w, d, 501, h.reply)
  ELSE IF requires_authority(w, h)
    THEN Ret(shutdown_stream(w, d, "H3_GENERAL_PROTOCOL_ERROR"), 0)
  ELSE LET w0 == [w EXCEPT
                    !.ds[d].req.method = h.method,
                    !.ds[d].req.no_authority = ~h.authority,
                    !.ds[d].req.authority =
                      IF h.authority THEN "AUTHORITY"
                      ELSE IF h.host THEN "HOST" ELSE @,
                    !.ds[d].req.path = request_path(w, d, h)]
       IN IF h.protocol = "other" THEN error_reply(w0, d, 400, h.reply)
          ELSE LET w1 == [w0 EXCEPT
                            !.ds[d].req.connect_proto =
                              IF h.protocol = "websocket"
                                THEN "WEBSOCKET" ELSE @,
                            !.ds[d].request_state = "HEADER_COMPLETE"]
               IN IF h.mruby = "FAIL" THEN error_reply(w1, d, 500, h.reply)
                  ELSE IF h.mruby = "COMPLETE"
                    THEN Ret([w1 EXCEPT
                                !.ds[d].response_state = "MSG_COMPLETE"], 0)
                  ELSE start_downstream(w1, d, e)

\* eu_ok: Downstream::end_upload_data succeeded
http_end_stream(w, d, eu_ok) ==
  LET w1 == IF ~eu_ok /\ w.ds[d].response_state # "MSG_COMPLETE"
              THEN shutdown_stream(w, d, "H3_INTERNAL_ERROR")
              ELSE w
  IN Ret([w1 EXCEPT !.ds[d].request_state = "MSG_COMPLETE"], 0)

\* ------------------------------------------------------ response body path
\* What the data source meets: the stream it serves, whether the response
\* is complete, the unsent bytes buffered and response_sent_body_length as
\* it finds them.  The record goes on with what it did: what it did to the
\* upstream write timer, the iovecs it surrendered, whether it asked for
\* the read half-close, and what it returned.
DataReadMet(w, d) ==
  [NoDataRead EXCEPT !.stream = d,
                     !.eof = w.ds[d].response_state = "MSG_COMPLETE",
                     !.left0 = rleft_mark(w, d),
                     !.len0 = w.ds[d].response_sent_body_length]

\* The data source returning r after the timer call t.
DataReadRet(w, met, t, r) ==
  Ret([w EXCEPT !.up.rdc = [met EXCEPT !.wtimer = t, !.ret = r]], r)

\* A data source that hands the bytes over without marking them.
downstream_read_data_callback_unmarked(w, d, veccnt, shut_rd_ok) ==
  LET met == DataReadMet(w, d)
  IN IF ~met.eof /\ met.left0 = 0
       THEN DataReadRet(w, met, "disable", Nghttp3ErrWouldblock)
       ELSE LET n == Min(met.left0, veccnt)
                w2 == [w EXCEPT !.tx[d].pending = @ + n,
                                !.tx[d].eof = met.eof,
                                !.ds[d].response_sent_body_length = @ + n]
                m2 == [met EXCEPT !.n = n, !.shut_rd = met.eof]
            IN IF met.eof /\ ~shut_rd_ok
                 THEN DataReadRet(w2, m2, "reset", Nghttp3ErrCallbackFailure)
                 ELSE DataReadRet(w2, m2, "reset", n)

\* A data source that leaves response_sent_body_length alone.
downstream_read_data_callback_uncounted(w, d, veccnt, shut_rd_ok) ==
  LET met == DataReadMet(w, d)
  IN IF ~met.eof /\ met.left0 = 0
       THEN DataReadRet(w, met, "disable", Nghttp3ErrWouldblock)
       ELSE LET w1 == riovec_mark(w, d, veccnt)
                w2 == [w1 EXCEPT !.tx[d].pending = @ + w1.ret,
                                 !.tx[d].eof = met.eof]
                m2 == [met EXCEPT !.n = w1.ret, !.shut_rd = met.eof]
            IN IF met.eof /\ ~shut_rd_ok
                 THEN DataReadRet(w2, m2, "reset", Nghttp3ErrCallbackFailure)
                 ELSE DataReadRet(w2, m2, "reset", w1.ret)

\* The response data source nghttp3 reads the body through; the bytes it
\* surrenders are nghttp3's to write (tx.pending).
downstream_read_data_callback(w, d, veccnt, shut_rd_ok) ==
  LET met == DataReadMet(w, d)
  IN IF ~stream_user_data(w, d) THEN null_downstream(w)
     ELSE IF ~met.eof /\ met.left0 = 0
       THEN DataReadRet(w, met, "disable", Nghttp3ErrWouldblock)
       ELSE LET w1 == riovec_mark(w, d, veccnt)
                w2 == [w1 EXCEPT !.tx[d].pending = @ + w1.ret,
                                 !.tx[d].eof = met.eof,
                                 !.ds[d].response_sent_body_length =
                                   @ + w1.ret]
                m2 == [met EXCEPT !.n = w1.ret, !.shut_rd = met.eof]
            IN IF met.eof /\ ~shut_rd_ok
                 THEN DataReadRet(w2, m2, "reset", Nghttp3ErrCallbackFailure)
                 ELSE DataReadRet(w2, m2, "reset", w1.ret)

\* Downstream::resume_read(SHRPX_NO_BUFFER, consumed)
resume_read(w, d, consumed, ok) ==
  Ret([w EXCEPT !.ds[d].resumed = @ + consumed], IF ok THEN 0 ELSE -1)

http_acked_stream_data(w, d, datalen, resume_ok) ==
  LET w1 == drain_mark(w, d, datalen)
      w2 == [w1 EXCEPT !.ds[d].drained = @ + w1.ret,
                       !.ds[d].drain_failed = @ \/ (datalen # w1.ret)]
      w3 == resume_read(w2, d, datalen, resume_ok)
  IN IF w3.ret # 0 THEN Ret(w3, -1) ELSE Ret(w3, 0)

\* nghttp3_conn_add_ack_offset: acknowledges datalen body bytes of the
\* stream to their owner through the acked_stream_data callback.
nghttp3_conn_add_ack_offset(w, d, datalen, ok, resume_ok) ==
  LET w0 == [w EXCEPT !.tx[d].forwarded = @ + datalen]
  IN IF ~ok
       THEN Ret(w0, -1)
     ELSE IF ~stream_user_data(w0, d) THEN null_downstream(w0)
     ELSE LET w1 == http_acked_stream_data(w0, d, datalen, resume_ok)
          IN IF w1.ret # 0 THEN Ret(w1, -1) ELSE w1

\* An ack handler that keeps the acknowledgement to itself.
acked_stream_data_offset_dropped(w, d, datalen, ok, resume_ok) == Ret(w, 0)

acked_stream_data_offset(w, d, datalen, ok, resume_ok) ==
  IF ~w.up.httpconn
    THEN Ret(w, 0)
    ELSE LET w1 == nghttp3_conn_add_ack_offset(w, d, datalen, ok, resume_ok)
         IN IF w1.ret # 0
              THEN Ret(Failed(w1, "nghttp3_conn_add_ack_offset"), -1)
              ELSE Ret(w1, 0)

\* ok: nghttp3_conn_unblock_stream succeeded; d: the stream (0: one whose
\* body is not followed)
extend_max_stream_data(w, d, ok) ==
  IF ~w.up.httpconn THEN Ret(w, 0)
  ELSE IF ~ok THEN Ret(Failed(w, "nghttp3_conn_unblock_stream"), -1)
  ELSE IF d # 0 THEN Ret([w EXCEPT !.tx[d].blocked = FALSE], 0)
  ELSE Ret(w, 0)

\* ok: nghttp3_conn_shutdown_stream_read succeeded; d: the stream (0: one
\* that is not followed)
http_shutdown_stream_read(w, d, ok) ==
  IF ~w.up.httpconn THEN Ret(w, 0)
  ELSE IF ~ok THEN Ret(Failed(w, "nghttp3_conn_shutdown_stream_read"), -1)
  ELSE IF d # 0 THEN Ret([w EXCEPT !.tx[d].shut_rd = TRUE], 0)
  ELSE Ret(w, 0)

Cancelled(w, by, d, app_error_code, liberr) ==
  [w EXCEPT !.up.can = [by |-> by, stream |-> d, code |-> app_error_code,
                        liberr |-> liberr]]

\* The transport's callback for a RESET_STREAM of the peer; the
\* application error code is not used.
stream_reset(w, d, app_error_code, ok) ==
  LET w1 == http_shutdown_stream_read(
              Cancelled(w, "stream_reset", d, app_error_code,
                        IF ok THEN "OK" ELSE "NGHTTP3_ERR_NOMEM"),
              d, ok)
  IN IF w1.ret # 0 THEN Ret(w1, Ngtcp2ErrCallbackFailure) ELSE Ret(w1, 0)

\* The transport's callback for a STOP_SENDING of the peer.
stream_stop_sending(w, d, app_error_code, ok) ==
  LET w1 == http_shutdown_stream_read(
              Cancelled(w, "stream_stop_sending", d, app_error_code,
                        IF ok THEN "OK" ELSE "NGHTTP3_ERR_NOMEM"),
              d, ok)
  IN IF w1.ret # 0 THEN Ret(w1, Ngtcp2ErrCallbackFailure) ELSE Ret(w1, 0)

\* ngtcp2_err_is_fatal of what the stream shutdown calls return.
ShutdownResults ==
  {"OK", "NGTCP2_ERR_STREAM_NOT_FOUND", "NGTCP2_ERR_NOMEM"}

ngtcp2_err_is_fatal(liberr) == liberr = "NGTCP2_ERR_NOMEM"

\* liberr: what ngtcp2_conn_shutdown_stream_read returned.
http_stop_sending(w, d, app_error_code, liberr) ==
  LET w1 == Cancelled(w, "http_stop_sending", d, app_error_code, liberr)
      w2 == IF liberr = "OK"
              THEN [w1 EXCEPT !.tx[d].stop = app_error_code] ELSE w1
  IN IF ngtcp2_err_is_fatal(liberr)
       THEN Ret(Failed(w2, "ngtcp2_conn_shutdown_stream_read"), -1)
       ELSE Ret(w2, 0)

\* nghttp3's stop_sending callback.
http_stop_sending_cb(w, d, app_error_code, liberr) ==
  LET w1 == http_stop_sending(w, d, app_error_code, liberr)
  IN IF w1.ret # 0 THEN Ret(w1, Nghttp3ErrCallbackFailure) ELSE Ret(w1, 0)

\* A callback that fails on every error of the transport.
http_reset_stream_strict(w, d, app_error_code, liberr) ==
  LET w1 == Cancelled(w, "http_reset_stream", d, app_error_code, liberr)
      w2 == IF liberr = "OK"
              THEN [w1 EXCEPT !.tx[d].reset = app_error_code] ELSE w1
  IN IF liberr # "OK"
       THEN Ret(Failed(w2, "ngtcp2_conn_shutdown_stream_write"), -1)
       ELSE Ret(w2, 0)

\* liberr: what ngtcp2_conn_shutdown_stream_write returned.
http_reset_stream(w, d, app_error_code, liberr) ==
  LET w1 == Cancelled(w, "http_reset_stream", d, app_error_code, liberr)
      w2 == IF liberr = "OK"
              THEN [w1 EXCEPT !.tx[d].reset = app_error_code] ELSE w1
  IN IF ngtcp2_err_is_fatal(liberr)
       THEN Ret(Failed(w2, "ngtcp2_conn_shutdown_stream_write"), -1)
       ELSE Ret(w2, 0)

\* nghttp3's reset_stream callback.
http_reset_stream_cb(w, d, app_error_code, liberr) ==
  LET w1 == http_reset_stream(w, d, app_error_code, liberr)
  IN IF w1.ret # 0 THEN Ret(w1, Nghttp3ErrCallbackFailure) ELSE Ret(w1, 0)

\* liberr: what nghttp3_conn_read_stream returned, "OK" if it consumed the
\* data.
\* nconsumed: the bytes of stream d it reports consumed in that case.
recv_stream_data(w, d, nconsumed, liberr) ==
  IF liberr # "OK"
    THEN Ret([Failed(w, "nghttp3_conn_read_stream")
                EXCEPT !.up.last_error = err_application(liberr)], -1)
  ELSE IF nconsumed > 0
    THEN Ret([w EXCEPT !.up.quic[d].max_stream_offset = @ + nconsumed,
                       !.up.max_offset = @ + nconsumed,
                       !.up.rcv.nconsumed = nconsumed], 0)
  ELSE Ret(w, 0)

\* Downstream::push_upload_data_chunk: a chunk the body pipe takes stays
\* unconsumed until the backend connection reports it written.
push_upload_data_chunk(w, d, datalen, ok) ==
  IF ok THEN Ret([w EXCEPT !.ds[d].unconsumed_body_length = @ + datalen], 0)
  ELSE Ret(w, -1)

\* What recv_data finds as it is called for a chunk of datalen bytes.
RecvMet(w, d, datalen, push_ok) ==
  [w EXCEPT !.up.rcv =
     [stream |-> d, datalen |-> datalen, pushed |-> push_ok,
      response_state |-> w.ds[d].response_state,
      shutdown_code |-> w.ds[d].shutdown_code,
      max_stream_offset |-> w.up.quic[d].max_stream_offset,
      max_offset |-> w.up.max_offset, nconsumed |-> 0]]

\* The chunk the body pipe refused: the stream is reset unless the
\* response is complete.
recv_data_failed(w, d) ==
  IF w.ds[d].response_state # "MSG_COMPLETE"
    THEN shutdown_stream(w, d, "H3_INTERNAL_ERROR")
    ELSE w

\* An http_recv_data that credits nothing for a chunk the body pipe
\* refused.
http_recv_data_uncredited(w, d, datalen, push_ok) ==
  IF push_ok
    THEN push_upload_data_chunk(RecvMet(w, d, datalen, push_ok), d, datalen,
                                TRUE)
    ELSE Ret(recv_data_failed(RecvMet(w, d, datalen, push_ok), d), 0)

http_recv_data(w, d, datalen, push_ok) ==
  IF push_ok
    THEN push_upload_data_chunk(RecvMet(w, d, datalen, push_ok), d, datalen,
                                TRUE)
    ELSE Ret(consume(recv_data_failed(RecvMet(w, d, datalen, push_ok), d),
                     d, datalen),
             0)

\* The recv_data callback of nghttp3.
http_recv_data_cb(w, d, datalen, push_ok) ==
  LET w1 == http_recv_data(w, d, datalen, push_ok)
  IN IF ~stream_user_data(w, d) THEN null_downstream(w)
     ELSE IF w1.ret # 0 THEN Ret(w1, Nghttp3ErrCallbackFailure)
     ELSE Ret(w1, 0)

\* Request::consume: the consumed bytes leave the unconsumed body length.
req_consume(w, d, len) ==
  [w EXCEPT !.ds[d].unconsumed_body_length = @ - len]

\* The downstream connection has passed consumed bytes of request body on.
\* signal_write: the write watcher is not part of the state, a write can
\* follow any step.
upstream_resume_read(w, d, consumed) ==
  Ret(req_consume(consume(w, d, consumed), d, consumed), 0)

\* The deferred_consume callback of nghttp3.
http_deferred_consume(w, d, nconsumed) == Ret(consume(w, d, nconsumed), 0)

\* The request streams are the client's bidirectional streams; 0 stands
\* for a unidirectional one.
ngtcp2_is_bidi_stream(d) == d \in Streams

\* liberr: what nghttp3_conn_close_stream returned for stream d, after its
\* stream_close callback left w.
stream_close(w, d, liberr) ==
  IF ~w.up.httpconn THEN Ret(w, 0)
  ELSE IF liberr = "OK" THEN Ret(w, 0)
  ELSE IF liberr = "NGHTTP3_ERR_STREAM_NOT_FOUND"
    THEN IF ngtcp2_is_bidi_stream(d)
           THEN Ret(ngtcp2_conn_extend_max_streams_bidi(w, d), 0)
           ELSE Ret(w, 0)
  ELSE Ret([Failed(w, "nghttp3_conn_close_stream")
              EXCEPT !.up.last_error = err_application(liberr)], -1)

\* ------------------------------------------------------------- write path
\* What one run of write_streams meets:
\*   veccnt      iovecs nghttp3 asks the data source for
\*   k           body bytes ngtcp2 accepts
\*   shut_rd_ok  shutdown_stream_read at the end of the body succeeded
\*   res         "OK", or the library call that failed
\*   he_ok       handle_error can write its CONNECTION_CLOSE
\*   quantum     ngtcp2_conn_get_send_quantum
\*   path_mtu    ngtcp2_conn_get_path_max_udp_payload_size
\*   full        packets of the full payload size the transport has ready
\*   short       a shorter packet follows them
\*   pc          the first packet whose path or ECN differs from the first
\*               packet's (0: none)
\*   turns       the transport's answers that make the loop go round again
\*               before it produces packets
H3WriteCalls ==
  {"nghttp3_conn_block_stream", "nghttp3_conn_shutdown_stream_write",
   "nghttp3_conn_add_write_offset"}

WriteResults ==
  {"OK", "nghttp3_conn_writev_stream", "ngtcp2_conn_writev_stream"}
    \cup H3WriteCalls

DefaultWrite ==
  [veccnt |-> 1, k |-> 0, shut_rd_ok |-> TRUE, res |-> "OK", he_ok |-> TRUE,
   quantum |-> SendQuantumCap, path_mtu |-> ShrpxQuicMaxUdpPayloadSize,
   full |-> 0, short |-> FALSE, more |-> 0, pc |-> 0, turns |-> <<>>]

\* The stream d is on offer to the transport: nghttp3 neither blocked it
\* nor shut its write side down.
Writable(w, d) == d # 0 /\ ~w.tx[d].blocked /\ ~w.tx[d].shut_wr

\* The transport takes n bytes of stream d.
accept_stream_data(w, d, n) ==
  [w EXCEPT !.tx[d].accepted = @ + n, !.tx[d].pending = @ - n]

nghttp3_conn_add_write_offset(w, d, n) == [w EXCEPT !.tx[d].inflight = @ + n]

\* A loop that does not report the bytes of NGTCP2_ERR_WRITE_MORE to nghttp3.
write_turn_forgets_offset(w, d, t) ==
  LET n == IF t.kind = "NGTCP2_ERR_WRITE_MORE" /\ Writable(w, d)
             THEN Min(t.n, w.tx[d].pending) ELSE -1
      w1 == [w EXCEPT !.up.ws.calls = @ + 1,
                      !.up.wt.stream = d,
                      !.up.wt.turns = Append(@, [kind |-> t.kind, n |-> n])]
  IN IF ~Writable(w, d) THEN w1
     ELSE IF t.kind = "NGTCP2_ERR_STREAM_DATA_BLOCKED"
       THEN [w1 EXCEPT !.tx[d].blocked = TRUE]
     ELSE IF t.kind = "NGTCP2_ERR_STREAM_SHUT_WR"
       THEN [w1 EXCEPT !.tx[d].shut_wr = TRUE]
     ELSE accept_stream_data(w1, d, n)

\* One turn of the loop that ends in "continue": the transport answered
\* t.kind for stream d, with ndatalen t.n under NGTCP2_ERR_WRITE_MORE (at
\* most what the stream has pending) and -1 otherwise. A stream nghttp3
\* no longer offers is not served: the turn is then another stream's.
write_turn(w, d, t) ==
  LET n == IF t.kind = "NGTCP2_ERR_WRITE_MORE" /\ Writable(w, d)
             THEN Min(t.n, w.tx[d].pending) ELSE -1
      w1 == [w EXCEPT !.up.ws.calls = @ + 1,
                      !.up.wt.stream = d,
                      !.up.wt.turns = Append(@, [kind |-> t.kind, n |-> n])]
  IN IF ~Writable(w, d) THEN w1
     ELSE IF t.kind = "NGTCP2_ERR_STREAM_DATA_BLOCKED"
       THEN [w1 EXCEPT !.tx[d].blocked = TRUE]
     ELSE IF t.kind = "NGTCP2_ERR_STREAM_SHUT_WR"
       THEN [w1 EXCEPT !.tx[d].shut_wr = TRUE]
     ELSE nghttp3_conn_add_write_offset(accept_stream_data(w1, d, n), d, n)

RECURSIVE write_turns(_, _, _)
write_turns(w, d, ts) ==
  IF ts = <<>> THEN w
  ELSE write_turns(write_turn(w, d, Head(ts)), d, Tail(ts))

\* The path and ECN marking the transport gives packet i of the run: 1 for
\* those of the first packet, 2 for different ones.
PktPath(e, i) == IF e.pc # 0 /\ i >= e.pc THEN 2 ELSE 1

\* send_packet for the packets pkts, under the path and ECN marking path.
Batch(path, pkts) == [path |-> path, pkts |-> pkts]

\* A packet of the run: its path and ECN marking, and whether it is shorter
\* than the max UDP payload size.
Pkt(path, is_short) == [path |-> path, short |-> is_short]

\* A turn that never compares a packet's path and ECN marking with those
\* of the buffer's first packet.
write_pkt_one_path(gso, e, r, path, is_short, next) ==
  IF gso
    THEN IF r.pktcnt + 1 = r.max_pktcnt \/ is_short
           THEN [next EXCEPT !.pktcnt = @ + 1, !.sends = @ + 1,
                             !.rearm = TRUE, !.buffered = 0,
                             !.signal = TRUE,
                             !.batches =
                               Append(@, Batch(path, Append(r.held, Pkt(path, is_short)))),
                             !.held = <<>>, !.done = TRUE]
         ELSE [next EXCEPT !.pktcnt = @ + 1, !.buffered = @ + 1,
                           !.held = Append(@, Pkt(path, is_short))]
  ELSE IF r.pktcnt + 1 = r.max_pktcnt
    THEN [next EXCEPT !.pktcnt = @ + 1, !.sends = @ + 1, !.rearm = TRUE,
                      !.signal = TRUE,
                      !.batches = Append(@, Batch(path, <<Pkt(path, is_short)>>)),
                      !.done = TRUE]
  ELSE [next EXCEPT !.pktcnt = @ + 1, !.sends = @ + 1,
                    !.batches = Append(@, Batch(path, <<Pkt(path, is_short)>>))]

\* A turn that goes on buffering after a packet shorter than the max UDP
\* payload size.
write_pkt_appends_after_short(gso, e, r, path, is_short, next) ==
  IF gso
    THEN IF r.pktcnt # 0 /\ path # r.prev
           THEN [next EXCEPT !.sends = @ + 2, !.rearm = TRUE,
                             !.buffered = 0, !.signal = TRUE,
                             !.batches =
                               @ \o <<Batch(r.prev, r.held),
                                      Batch(path, <<Pkt(path, is_short)>>)>>,
                             !.held = <<>>, !.done = TRUE]
         ELSE IF r.pktcnt + 1 = r.max_pktcnt
           THEN [next EXCEPT !.pktcnt = @ + 1, !.sends = @ + 1,
                             !.rearm = TRUE, !.buffered = 0,
                             !.signal = TRUE,
                             !.batches =
                               Append(@, Batch(path, Append(r.held, Pkt(path, is_short)))),
                             !.held = <<>>, !.done = TRUE]
         ELSE [next EXCEPT !.pktcnt = @ + 1, !.buffered = @ + 1,
                           !.held = Append(@, Pkt(path, is_short))]
  ELSE IF r.pktcnt + 1 = r.max_pktcnt
    THEN [next EXCEPT !.pktcnt = @ + 1, !.sends = @ + 1, !.rearm = TRUE,
                      !.signal = TRUE,
                      !.batches = Append(@, Batch(path, <<Pkt(path, is_short)>>)),
                      !.done = TRUE]
  ELSE [next EXCEPT !.pktcnt = @ + 1, !.sends = @ + 1,
                    !.batches = Append(@, Batch(path, <<Pkt(path, is_short)>>))]

\* The turn of the loop in which the transport has produced a packet, under
\* the path and ECN marking path; next is the run with the packet counted.
\* done: write_streams returns in this turn.
write_pkt(gso, e, r, path, is_short, next) ==
  IF gso
    THEN IF r.pktcnt # 0 /\ path # r.prev
           THEN [next EXCEPT !.sends = @ + 2, !.rearm = TRUE,
                             !.buffered = 0, !.signal = TRUE,
                             !.batches =
                               @ \o <<Batch(r.prev, r.held),
                                      Batch(path, <<Pkt(path, is_short)>>)>>,
                             !.held = <<>>, !.done = TRUE]
         ELSE IF r.pktcnt + 1 = r.max_pktcnt \/ is_short
           THEN [next EXCEPT !.pktcnt = @ + 1, !.sends = @ + 1,
                             !.rearm = TRUE, !.buffered = 0,
                             !.signal = TRUE,
                             !.batches =
                               Append(@, Batch(path, Append(r.held, Pkt(path, is_short)))),
                             !.held = <<>>, !.done = TRUE]
         ELSE [next EXCEPT !.pktcnt = @ + 1, !.buffered = @ + 1,
                           !.held = Append(@, Pkt(path, is_short))]
  ELSE IF r.pktcnt + 1 = r.max_pktcnt
    THEN [next EXCEPT !.pktcnt = @ + 1, !.sends = @ + 1, !.rearm = TRUE,
                      !.signal = TRUE,
                      !.batches = Append(@, Batch(path, <<Pkt(path, is_short)>>)),
                      !.done = TRUE]
  ELSE [next EXCEPT !.pktcnt = @ + 1, !.sends = @ + 1,
                    !.batches = Append(@, Batch(path, <<Pkt(path, is_short)>>))]

\* One turn of the loop of write_streams from the state r of a run on: the
\* transport produces the next packet, or nothing (nwrite == 0).
write_loop_turn(gso, e, r) ==
  IF r.done THEN r
  ELSE IF r.produced + 1 > e.full + (IF e.short THEN 1 + e.more ELSE 0)
    THEN IF r.buffered > 0
           THEN [r EXCEPT !.sends = @ + 1, !.rearm = TRUE, !.buffered = 0,
                          !.calls = @ + 1, !.stopw = TRUE,
                          !.batches = Append(@, Batch(r.prev, r.held)),
                          !.held = <<>>, !.done = TRUE]
           ELSE [r EXCEPT !.calls = @ + 1, !.stopw = TRUE, !.done = TRUE]
  ELSE write_pkt(gso, e, r, PktPath(e, r.produced + 1),
                 e.short /\ r.produced + 1 = e.full + 1,
                 [r EXCEPT !.produced = @ + 1, !.calls = @ + 1,
                           !.prev = IF r.pktcnt = 0
                                      THEN PktPath(e, r.produced + 1)
                                      ELSE @])

\* Up to n turns of the loop, one half after the other, until
\* write_streams returns.
RECURSIVE write_loop_turns(_, _, _, _)
write_loop_turns(gso, e, r, n) ==
  IF n <= 1 THEN write_loop_turn(gso, e, r)
  ELSE LET half == write_loop_turns(gso, e, r, n \div 2)
       IN IF half.done THEN half
          ELSE write_loop_turns(gso, e, half, n - n \div 2)

\* The loop of write_streams: it returns with the transport's packets
\* written, in the turn after the last one at the latest.
write_loop(gso, e, r) == write_loop_turns(gso, e, r, e.full + e.more + 2)

\* The run of write_streams as it starts: max_pktcnt from the send quantum
\* and the max UDP payload size.
write_begin(w, e) ==
  LET max_udp_payload_size == Min(w.up.max_udp_payload_size, e.path_mtu)
      quotient == Min(SendQuantumCap, e.quantum) \div max_udp_payload_size
  IN [NoWrite EXCEPT
        !.max_udp_payload_size = max_udp_payload_size,
        !.quotient = quotient,
        !.veccnt = NumVec,
        !.max_pktcnt = IF w.up.config.bbr
                         THEN quotient ELSE Min(quotient, MaxPktcntNoBbr)]

\* The packets of a run that meets no failure: the loop, the sends and the
\* idle timer.
packets_sent(w, r) ==
  LET w1 == IF r.sends > 0 THEN send_packet(w, "write_streams") ELSE w
      w2 == IF r.rearm THEN reset_idle_timer(w1) ELSE w1
  IN [w2 EXCEPT !.up.ws = [r EXCEPT !.pktcnt = 0, !.buffered = 0,
                                   !.prev = 0, !.done = FALSE]]

write_packets(w, e) ==
  packets_sent(w, write_loop(w.up.config.udp_segment, e, w.up.ws))

\* write_streams fails in nghttp3: last_error_ and handle_error.
write_fail_application(v, call, liberr, he_ok) ==
  handle_error([Failed(v, call)
                  EXCEPT !.up.last_error = err_application(liberr),
                         !.up.wt.failed = call],
               he_ok)

\* The transport's write failed for good, in the call after the turns
\* counted so far: last_error_, wlimit.stopw() and handle_error.
write_fail_transport(v, liberr, he_ok) ==
  handle_error([Failed(v, "ngtcp2_conn_writev_stream")
                  EXCEPT !.up.last_error = err_transport(liberr),
                         !.up.wt.failed = "ngtcp2_conn_writev_stream",
                         !.up.ws.calls = @ + 1,
                         !.up.ws.stopw = TRUE],
               he_ok)

\* The last transport call of the run, after the turns that left wt: it
\* takes k bytes of a stream still on offer, and the packets follow.
write_last(wt, d, e) ==
  LET k == IF Writable(wt, d) THEN Min(e.k, wt.tx[d].pending) ELSE 0
      wk == IF Writable(wt, d) THEN accept_stream_data(wt, d, k) ELSE wt
      wa == [wk EXCEPT !.up.wt.k = IF e.turns # <<>> THEN k ELSE @]
  IN IF e.res = "ngtcp2_conn_writev_stream"
       THEN write_fail_transport(wt, "NGTCP2_ERR_NOMEM", e.he_ok)
     ELSE IF wt.up.httpconn /\ e.res = "nghttp3_conn_add_write_offset"
       THEN write_fail_application([wa EXCEPT !.up.ws.calls = @ + 1], e.res,
                                   "NGHTTP3_ERR_NOMEM", e.he_ok)
     ELSE IF wt.up.httpconn /\ e.res \in H3WriteCalls
       THEN write_fail_application([wt EXCEPT !.up.ws.calls = @ + 1], e.res,
                                   "NGHTTP3_ERR_NOMEM", e.he_ok)
     ELSE Ret(write_packets(IF Writable(wt, d)
                              THEN nghttp3_conn_add_write_offset(wa, d, k)
                              ELSE wa,
                            e),
              0)

\* The run from its first transport call on; w1 is what the data source
\* left.
write_transport(w1, d, e) ==
  LET wb == [w1 EXCEPT !.up.ws = write_begin(w1, e)]
  IN IF w1.ret = Nghttp3ErrCallbackFailure
       THEN write_fail_application(wb, "nghttp3_conn_writev_stream",
                                   "NGHTTP3_ERR_CALLBACK_FAILURE", e.he_ok)
     ELSE IF w1.up.closing
       THEN write_fail_transport(wb, "NGTCP2_ERR_CLOSING", e.he_ok)
     ELSE IF w1.up.draining
       THEN write_fail_transport(wb, "NGTCP2_ERR_DRAINING", e.he_ok)
     ELSE write_last(
            IF w1.up.httpconn /\ e.turns # <<>>
              THEN write_turns(
                     [wb EXCEPT !.up.wt.before =
                                  IF d # 0
                                    THEN w1.tx[d].inflight + w1.tx[d].acked
                                    ELSE 0],
                     d, e.turns)
              ELSE wb,
            d, e)

\* The run serves stream d (0: no stream has data to write).
write_streams(w, d, e) ==
  IF w.up.httpconn /\ e.res = "nghttp3_conn_writev_stream"
    THEN write_fail_application([w EXCEPT !.up.ws = write_begin(w, e)],
                                e.res, "NGHTTP3_ERR_NOMEM", e.he_ok)
  ELSE write_transport(
         IF w.up.httpconn /\ Writable(w, d)
              /\ w.tx[d].pending = 0 /\ ~w.tx[d].eof
           THEN downstream_read_data_callback(w, d, e.veccnt, e.shut_rd_ok)
           ELSE Ret(w, 0),
         d, e)

\* An on_write that leaves the retransmit timer alone.
on_write_no_rearm(w, d, e) ==
  LET w1 == write_streams(
              [w EXCEPT !.up.ow = [ran |-> TRUE, ts |-> w.clk.ts,
                                   expiry |-> w.clk.expiry_ts]],
              d, e)
  IN IF w1.ret # 0 THEN Ret(w1, -1) ELSE Ret(w1, 0)

on_write(w, d, e) ==
  LET w1 == write_streams(
              [w EXCEPT !.up.ow = [ran |-> TRUE, ts |-> w.clk.ts,
                                   expiry |-> w.clk.expiry_ts]],
              d, e)
  IN IF w1.ret # 0 THEN Ret(w1, -1) ELSE Ret(reset_timer(w1), 0)

\* -------------------------------------------------------------- handshake
\* setup: how setup_httpconn goes: "OK", "FAIL_EARLY" (too few
\* unidirectional streams, or nghttp3_conn_server_new failed: no handle) or
\* "FAIL_LATE" (a step after the handle was created failed).
SetupOutcomes == {"OK", "FAIL_EARLY", "FAIL_LATE"}

setup_httpconn(w, setup) ==
  IF setup = "FAIL_EARLY"
    THEN Ret(Failed(w, "setup_httpconn"), -1)
    ELSE LET w1 == [w EXCEPT !.up.httpconn = TRUE]
         IN IF setup = "FAIL_LATE"
              THEN Ret(Failed(w1, "setup_httpconn"), -1)
              ELSE Ret(w1, 0)

\* key_ok: ngtcp2_crypto_derive_and_install_tx_key succeeded
on_tx_secret(w, level, key_ok, setup) ==
  IF ~key_ok
    THEN Ret(Failed(w, "ngtcp2_crypto_derive_and_install_tx_key"), -1)
    ELSE LET w1 == [w EXCEPT !.up.tx_level = level]
         IN IF level = "APPLICATION"
              THEN LET w2 == setup_httpconn(w1, setup)
                   IN IF w2.ret # 0 THEN Ret(w2, -1) ELSE Ret(w2, 0)
              ELSE Ret(w1, 0)

NextLevel(level) == IF level = "INITIAL" THEN "HANDSHAKE" ELSE "APPLICATION"

\* ------------------------------------------------------------ connection IDs
\* A new connection ID the transport advertises but the registry never
\* learns.
get_new_connection_id_unregistered(w, cid, gen_ok) ==
  IF ~gen_ok
    THEN Ret(w, -1)
    ELSE Ret([w EXCEPT !.up.scids = @ \cup {cid}, !.up.issued = cid], 0)

\* gen_ok: the connection ID and its stateless reset token were generated
get_new_connection_id(w, cid, gen_ok) ==
  IF ~gen_ok
    THEN Ret(w, -1)
    ELSE Ret([add_connection_id(w, cid)
                EXCEPT !.up.scids = @ \cup {cid}, !.up.issued = cid], 0)

\* The remove_connection_id callback: the transport retired cid.
retire_connection_id(w, cid) ==
  Ret([remove_connection_id(w, cid) EXCEPT !.up.scids = @ \ {cid}], 0)

\* ------------------------------------------------------------------ on_read
\* What a datagram does to the transport.  kind:
\*   "PLAIN"     processed, no callback of interest
\*   "CRYPTO"    handshake data that installs the next tx keys (key_ok,
\*               setup: see on_tx_secret)
\*   "RETRY"     a first Initial that needs address validation (decode_ok:
\*               its version and CIDs decode)
\*   "DROP"      a first packet the transport wants dropped
\*   "TP_REQUIRED", "TP_MALFORMED", "TP"   bad transport parameters
\*   "CLOSE"     the peer's CONNECTION_CLOSE
\*   "PROTO"     a protocol violation detected by the transport
\*   "CB"        a transport callback of no layer failed (random bytes,
\*               connection ID generation)
\*   "STREAM_DATA"  stream data nghttp3_conn_read_stream rejects (liberr)
\*   "STREAM_CLOSE" a stream close nghttp3_conn_close_stream rejects (liberr)
\*   "ACK"       an acknowledgement nghttp3_conn_add_ack_offset rejects
\*   "MAX_STREAM_DATA"  flow control credit nghttp3_conn_unblock_stream
\*               rejects
\*   "RESET"     a RESET_STREAM or STOP_SENDING
\*               nghttp3_conn_shutdown_stream_read rejects
\* he_ok: handle_error can write its CONNECTION_CLOSE.
DefaultPacket ==
  [kind |-> "PLAIN", key_ok |-> TRUE, setup |-> "OK", decode_ok |-> TRUE,
   liberr |-> "OK", he_ok |-> TRUE, hs |-> "OK"]

\* What handshake_completed meets: "NO_ALPN" no ALPN was negotiated,
\* "NO_TOKEN" generate_token failed, "SUBMIT_FAIL"
\* ngtcp2_conn_submit_new_token failed.
HandshakeOutcomes == {"OK", "NO_ALPN", "NO_TOKEN", "SUBMIT_FAIL"}

\* A handshake completion that submits no token.
handshake_completed_no_token(w, x) ==
  IF x = "NO_ALPN" THEN Ret(w, -1) ELSE Ret(w, 0)

handshake_completed(w, x) ==
  IF x = "NO_ALPN" THEN Ret(w, -1)
  ELSE IF x = "NO_TOKEN" THEN Ret(w, 0)
  ELSE IF x = "SUBMIT_FAIL"
    THEN Ret(Failed(w, "ngtcp2_conn_submit_new_token"), -1)
  ELSE Ret([w EXCEPT !.up.tokens = @ + 1], 0)

\* The handshake_completed callback as the transport runs it, once per
\* connection.
handshake_completed_cb(w, x) ==
  LET w1 == handshake_completed(w, x)
  IN [w1 EXCEPT !.up.hs = [called |-> TRUE, ret |-> w1.ret,
                           token_ok |-> x # "NO_TOKEN"]]

CryptoPackets ==
  { [DefaultPacket EXCEPT !.kind = "CRYPTO", !.setup = x] : x \in SetupOutcomes }
  \cup
  { [DefaultPacket EXCEPT !.kind = "CRYPTO", !.key_ok = FALSE] }

H3Errors ==
  {"NGHTTP3_ERR_H3_FRAME_ERROR", "NGHTTP3_ERR_NOMEM",
   "NGHTTP3_ERR_H3_ID_ERROR"}

Packets ==
  {DefaultPacket}
  \cup CryptoPackets
  \cup { [DefaultPacket EXCEPT !.kind = "RETRY", !.decode_ok = b] :
           b \in BOOLEAN }
  \cup { [DefaultPacket EXCEPT !.kind = k] : k \in {"DROP", "CLOSE"} }
  \cup { [DefaultPacket EXCEPT !.kind = "FINISHED", !.hs = x] :
           x \in HandshakeOutcomes }
  \cup { [DefaultPacket EXCEPT !.kind = k, !.he_ok = b] :
           k \in {"TP_REQUIRED", "TP_MALFORMED", "TP", "PROTO", "CB", "ACK",
                  "MAX_STREAM_DATA", "RESET"},
           b \in BOOLEAN }
  \cup { [DefaultPacket EXCEPT !.kind = k, !.liberr = x, !.he_ok = b] :
           k \in {"STREAM_DATA", "STREAM_CLOSE"}, x \in H3Errors,
           b \in BOOLEAN }

\* The states in which the transport can meet a packet of that kind.
PacketPossible(w, p) ==
  CASE p.kind \in {"RETRY", "DROP"} -> w.up.first_pkt
    [] p.kind = "CRYPTO" -> w.up.tx_level # "APPLICATION"
    [] p.kind = "FINISHED" ->
         w.up.tx_level = "APPLICATION" /\ ~w.up.hs.called
    [] p.kind \in {"TP_REQUIRED", "TP_MALFORMED", "TP"} ->
         w.up.tx_level # "APPLICATION"
    [] p.kind \in {"STREAM_DATA", "STREAM_CLOSE", "ACK", "MAX_STREAM_DATA",
                   "RESET"} -> w.up.httpconn
    [] OTHER -> TRUE

\* What ngtcp2_conn_read_pkt returns after a callback left state v: the
\* state, and the library result.
CallbackResult(v) ==
  [w |-> [v EXCEPT !.up.first_pkt = FALSE],
   res |-> IF v.ret # 0 THEN "NGTCP2_ERR_CALLBACK_FAILURE" ELSE "OK"]

\* ngtcp2_conn_read_pkt: runs the callbacks the packet calls for.
ngtcp2_conn_read_pkt(w, p) ==
  LET done(v, res) == [w |-> [v EXCEPT !.up.first_pkt = FALSE], res |-> res]
      cb(v) == CallbackResult(v)
  IN IF w.up.closing THEN done(w, "NGTCP2_ERR_CLOSING")
     ELSE IF w.up.draining THEN done(w, "NGTCP2_ERR_DRAINING")
     ELSE CASE p.kind = "PLAIN" -> done(w, "OK")
            [] p.kind = "CRYPTO" ->
                 cb(on_tx_secret(w, NextLevel(w.up.tx_level), p.key_ok,
                                 p.setup))
            [] p.kind = "FINISHED" -> cb(handshake_completed_cb(w, p.hs))
            [] p.kind = "RETRY" -> done(w, "NGTCP2_ERR_RETRY")
            [] p.kind = "DROP" -> done(w, "NGTCP2_ERR_DROP_CONN")
            [] p.kind = "TP_REQUIRED" ->
                 done(w, "NGTCP2_ERR_REQUIRED_TRANSPORT_PARAM")
            [] p.kind = "TP_MALFORMED" ->
                 done(w, "NGTCP2_ERR_MALFORMED_TRANSPORT_PARAM")
            [] p.kind = "TP" -> done(w, "NGTCP2_ERR_TRANSPORT_PARAM")
            [] p.kind = "CLOSE" ->
                 done([w EXCEPT !.up.draining = TRUE], "NGTCP2_ERR_DRAINING")
            [] p.kind = "PROTO" -> done(w, "NGTCP2_ERR_PROTO")
            [] p.kind = "CB" -> done(w, "NGTCP2_ERR_CALLBACK_FAILURE")
            [] p.kind = "STREAM_DATA" -> cb(recv_stream_data(w, 0, 0, p.liberr))
            [] p.kind = "STREAM_CLOSE" -> cb(stream_close(w, 0, p.liberr))
            [] p.kind = "ACK" ->
                 cb(acked_stream_data_offset(w, 1, 0, FALSE, TRUE))
            [] p.kind = "MAX_STREAM_DATA" ->
                 cb(extend_max_stream_data(w, 0, FALSE))
            [] p.kind = "RESET" -> cb(http_shutdown_stream_read(w, 0, FALSE))

\* The transport-parameter failures of ngtcp2_conn_read_pkt.
TransportParamErrors ==
  {"NGTCP2_ERR_REQUIRED_TRANSPORT_PARAM",
   "NGTCP2_ERR_MALFORMED_TRANSPORT_PARAM", "NGTCP2_ERR_TRANSPORT_PARAM"}

\* The failures of ngtcp2_conn_read_pkt that on_read returns on at once.
SilentErrors == {"NGTCP2_ERR_DRAINING", "NGTCP2_ERR_DROP_CONN"}

\* A failed read that records its own error over any earlier one.
read_error_overwrites(w, res) ==
  [w EXCEPT !.up.last_error = err_transport(res)]

\* The switch of on_read for the failures that reach handle_error.
read_error(w, res) ==
  IF res \in TransportParamErrors
    THEN [w EXCEPT !.up.last_error = err_transport(res)]
  ELSE IF w.up.last_error.code = "NO_ERROR"
    THEN [w EXCEPT !.up.last_error = err_transport(res)]
  ELSE w

\* on_read from the result of ngtcp2_conn_read_pkt on: r.w is the state its
\* callbacks left, r.res its result.  rd records the result and the
\* last_error_ the switch met.
on_read_result(r, p) ==
  LET w == [r.w EXCEPT !.up.rd = [res |-> r.res, prior |-> r.w.up.last_error,
                                  sent |-> Len(r.w.net.sent)]]
      res == r.res
  IN IF res = "OK" THEN Ret(reset_idle_timer(w), 0)
     ELSE IF res = "NGTCP2_ERR_DRAINING" THEN Ret(w, -1)
     ELSE IF res = "NGTCP2_ERR_RETRY"
       THEN IF ~p.decode_ok
              THEN Ret([w EXCEPT !.up.retry = "UNDECODABLE"], -1)
            ELSE IF w.net.graceful
              THEN Ret([w EXCEPT
                          !.up.retry = "REFUSED",
                          !.net.sent =
                            Append(@, [by |-> "send_connection_close",
                                       kind |-> "transport",
                                       code |-> "CONNECTION_REFUSED",
                                       origin |-> "NONE"])], -1)
            ELSE Ret([w EXCEPT
                        !.up.retry_close = TRUE,
                        !.up.retry = "RETRY",
                        !.net.sent =
                          Append(@, [by |-> "send_retry", kind |-> "retry",
                                     code |-> "NONE", origin |-> "NONE"])],
                     -1)
     ELSE IF res = "NGTCP2_ERR_DROP_CONN" THEN Ret(w, -1)
     ELSE handle_error(read_error(Failed(w, "ngtcp2_conn_read_pkt"), res),
                       p.he_ok)

on_read(w, p) == on_read_result(ngtcp2_conn_read_pkt(w, p), p)

\* ------------------------------------------------------------------ timers
\* ok: ngtcp2_conn_handle_expiry succeeded
handle_expiry(w, ok, he_ok) ==
  IF ~ok
    THEN handle_error(
           [Failed(w, "ngtcp2_conn_handle_expiry")
              EXCEPT !.up.last_error = err_transport("NGTCP2_ERR_INTERNAL")],
           he_ok)
    ELSE Ret(w, 0)

\* The owner of the Upstream (the caller of on_read and on_write) deletes
\* the handler when they return non-zero.
delete_if_fatal(w, e) ==
  IF w.ret # 0 /\ w.up.alive = "alive" THEN DeleteHandler(w, e) ELSE w

timeoutcb(w, expiry_ok, x, e) ==
  LET w1 == handle_expiry(w, expiry_ok, x.he_ok)
  IN IF w1.ret # 0
       THEN DeleteHandler(w1, e)
       ELSE LET w2 == on_write(w1, 0, x)
            IN IF w2.ret # 0 THEN DeleteHandler(w2, e) ELSE w2

\* ------------------------------------------------------------------- state
Init ==
  /\ ds = [s \in Streams |-> NoDownstream]
  /\ dq = [downstreams |-> {}, blocked |-> <<>>]
  /\ h3s = [s \in Streams |-> "idle"]
  /\ h3tx = [s \in Streams |-> NoTx]
  /\ up = InitUp
  /\ net = InitNet
  /\ rv = 0

\* The Upstream exists.
Running == up.alive = "alive"

\* The Upstream exists and the transport delivers stream events to HTTP/3.
H3Running == Running /\ up.httpconn /\ ~up.closing /\ ~up.draining

\* The deletion answers are consulted only when the handler is deleted.
DefaultDelete == [wr_ok |-> TRUE, pto |-> 1]

DeleteEnvIf(deletes) == IF deletes THEN DeleteEnv ELSE {DefaultDelete}

\* on_read for stream data whose HTTP/3 callback left state w1: a failed
\* callback fails nghttp3_conn_read_stream, and with it the packet.
\* nghttp3 reports nconsumed bytes of stream d consumed.
read_stream_bytes(w1, d, nconsumed, he_ok) ==
  on_read_result(
    CallbackResult(
      recv_stream_data(w1, d, nconsumed,
                       IF w1.ret # 0 THEN "NGHTTP3_ERR_CALLBACK_FAILURE"
                       ELSE "OK")),
    [DefaultPacket EXCEPT !.he_ok = he_ok])

read_stream_data(w1, he_ok) == read_stream_bytes(w1, 0, 0, he_ok)

\* on_read for a transport event whose callback left state w1.
read_event(w1, he_ok) ==
  on_read_result(CallbackResult(w1), [DefaultPacket EXCEPT !.he_ok = he_ok])

\* Commits the outcome w of on_read or on_write; the owner deletes the
\* handler if it is fatal.
CommitIo(w) ==
  \E e \in DeleteEnvIf(w.ret # 0) : Commit(delete_if_fatal(w, e))

\* The same for a stream event, where the deletion meets the plain case.
CommitStream(w) == Commit(delete_if_fatal(w, DefaultDelete))

\* ------------------------------------------------------ connection actions
\* A datagram arrives for the connection, under a clock of C.
OnRead(p, C) ==
  /\ Running
  /\ PacketPossible(World, p)
  /\ \E c \in C : CommitIo(on_read(WorldOf("OK", c), p))
  /\ UNCHANGED h3s

\* The handshake proceeds without failure.
Handshake ==
  /\ up.tx_level # "APPLICATION"
  /\ OnRead([DefaultPacket EXCEPT !.kind = "CRYPTO"], {DefaultClock})

\* The runs of write_streams that send nothing: each library call succeeds
\* or fails.
PlainWrites ==
  { [DefaultWrite EXCEPT !.res = res, !.he_ok = he_ok] :
      res \in WriteResults, he_ok \in BOOLEAN }

\* The write event when no stream has data; E: the runs of write_streams,
\* S: the answers of quic_send_packet and C: the clocks considered.
OnWrite(E, S, C) ==
  /\ Running
  /\ \E e \in E, snd \in S, c \in C :
       /\ e.res = "OK" => e.he_ok
       /\ CommitIo(on_write(WorldOf(snd, c), 0, e))
  /\ UNCHANGED h3s

\* The transport's timer fires.
Timeout ==
  /\ Running
  /\ \E expiry_ok \in BOOLEAN, he_ok \in BOOLEAN,
        res \in {"OK", "ngtcp2_conn_writev_stream"} :
       LET x == [DefaultWrite EXCEPT !.res = res, !.he_ok = he_ok]
           probe == timeoutcb(World, expiry_ok, x, DefaultDelete)
       IN /\ expiry_ok \/ res = "OK"
          /\ he_ok \/ probe.up.he_called
          /\ \E e \in DeleteEnvIf(probe.up.alive # "alive") :
               Commit(timeoutcb(World, expiry_ok, x, e))
  /\ UNCHANGED h3s

\* The idle timer fires.
IdleTimeout ==
  /\ Running
  /\ \E e \in DeleteEnv :
       Commit(Ret(idle_timeoutcb([World EXCEPT !.up.idle_fired = TRUE], e),
                  0))
  /\ UNCHANGED h3s

\* The handler is deleted for a reason of its owner's.
HandlerDelete ==
  /\ Running
  /\ \E e \in DeleteEnv : Commit(Ret(DeleteHandler(World, e), 0))
  /\ UNCHANGED h3s

\* The worker enters graceful shutdown.
WorkerGracefulShutdown ==
  /\ ~net.graceful
  /\ net' = [net EXCEPT !.graceful = TRUE]
  /\ UNCHANGED <<ds, dq, h3s, h3tx, up, rv>>

\* A loop iteration begins while the prepare watcher is active.
Prepare ==
  /\ Running
  /\ up.prep_active
  /\ \E ok \in BOOLEAN, ub \in NullHandleOutcomes :
       /\ (up.httpconn \/ ~net.graceful) => ub = "NO_EFFECT"
       /\ (~up.httpconn \/ ~net.graceful) => ok
       /\ LET w1 == check_shutdown(World, ok, ub)
          IN \E e \in DeleteEnvIf(w1.ret # 0) :
               Commit(prepare_cb(World, ok, ub, e))
  /\ UNCHANGED h3s

\* The shutdown timer fires.
ShutdownTimeout ==
  /\ Running
  /\ up.shutdown_timer = "armed"
  /\ \E ok \in BOOLEAN, ub \in NullHandleOutcomes :
       /\ up.httpconn => ub = "NO_EFFECT"
       /\ ~up.httpconn => ok
       /\ LET w1 == submit_goaway(World, ok, ub)
          IN \E e \in DeleteEnvIf(w1.ret # 0) :
               Commit(shutdown_timeout_cb(World, ok, ub, e))
  /\ UNCHANGED h3s

\* The transport asks for a new connection ID.
GetNewConnectionId ==
  /\ Running
  /\ ~up.closing /\ ~up.draining
  /\ up.issued < MaxCid
  /\ \E gen_ok \in BOOLEAN :
       Commit(get_new_connection_id(World, up.issued + 1, gen_ok))
  /\ UNCHANGED h3s

\* The transport retires one of its connection IDs.
RemoveConnectionId ==
  /\ Running
  /\ ~up.closing /\ ~up.draining
  /\ \E cid \in up.scids :
       /\ Cardinality(up.scids) > 1
       /\ Commit(retire_connection_id(World, cid))
  /\ UNCHANGED h3s

\* ----------------------------------------------------------- stream actions
\* The callbacks as nghttp3 reaches them: it passes the stream's Downstream,
\* and the callbacks for request data return at once when it stopped
\* reading.
http_recv_request_header_cb(w, d, len, trailer, reply) ==
  IF w.ds[d].stop_reading THEN Ret(w, 0)
  ELSE http_recv_request_header(w, d, len, trailer, reply)

http_end_request_headers_cb(w, d, h, e) ==
  IF w.ds[d].stop_reading THEN Ret(w, 0)
  ELSE http_end_request_headers(w, d, h, e)

http_end_stream_cb(w, d, eu_ok) ==
  IF w.ds[d].stop_reading THEN Ret(w, 0)
  ELSE http_end_stream(w, d, eu_ok)

\* The header fields the peer sent so far, accepted or not.
Offered(w, d, len) ==
  [w EXCEPT !.ds[d].offered_fields = @ + 1, !.ds[d].offered_bytes = @ + len]

\* The peer opens request stream s; streams open in order.
HttpBeginRequestHeaders(s) ==
  /\ H3Running
  /\ h3s[s] \in {"idle", "raw"}
  /\ IF s = 1 THEN TRUE ELSE h3s[s - 1] # "idle"
  /\ Commit(http_begin_request_headers(World, s))
  /\ h3s' = [h3s EXCEPT ![s] = "hdr"]

\* A request header field of s arrives.
HttpRecvRequestHeader(s) ==
  /\ H3Running
  /\ h3s[s] = "hdr"
  /\ ds[s].offered_fields <= MaxRequestHeaderFields
  /\ \E len \in 1..MaxFieldLen, reply \in ReplyOutcomes, he_ok \in BOOLEAN :
       LET w1 == http_recv_request_header_cb(Offered(World, s, len), s, len,
                                             FALSE, reply)
       IN /\ (reply # "OK") => (w1.ret # 0)
          /\ he_ok \/ w1.ret # 0
          /\ CommitStream(read_stream_data(w1, he_ok))
  /\ UNCHANGED h3s

\* A request trailer field of s arrives.
HttpRecvRequestTrailer(s) ==
  /\ H3Running
  /\ h3s[s] = "req"
  /\ ds[s].num_fields <= MaxRequestHeaderFields
  /\ \E len \in 1..MaxFieldLen :
       CommitStream(read_stream_data(
                  http_recv_request_header_cb(World, s, len, TRUE, "OK"),
                  TRUE))
  /\ UNCHANGED h3s

\* The request header block of s ends.  HE: the header verdicts, IE: the
\* admission answers considered.
HttpEndRequestHeaders(s, HE, IE) ==
  /\ H3Running
  /\ h3s[s] = "hdr"
  /\ \E h \in HE, he_ok \in BOOLEAN :
       \E e \in IF /\ ~Answered(h) /\ h.mruby = "OK"
                     /\ ~requires_authority(World, h)
                     /\ can_activate(World) /\ ~ds[s].stop_reading
                  THEN IE ELSE {DefaultInitiate} :
         LET w1 == http_end_request_headers_cb(World, s, h, e)
         IN /\ ds[s].stop_reading => h = DefaultHeaders
            /\ he_ok \/ w1.ret # 0
            /\ CommitStream(read_stream_data(w1, he_ok))
  /\ h3s' = [h3s EXCEPT ![s] = "req"]

\* The request of s ends.
HttpEndStream(s) ==
  /\ H3Running
  /\ h3s[s] = "req"
  /\ \E eu_ok \in BOOLEAN :
       /\ ds[s].stop_reading => eu_ok
       /\ CommitStream(read_stream_data(http_end_stream_cb(World, s, eu_ok),
                                    TRUE))
  /\ h3s' = [h3s EXCEPT ![s] = "fin"]

\* Stream s closes.  IE: the admission answers considered for a promoted
\* Downstream.
HttpStreamClose(s, IE) ==
  /\ H3Running
  /\ h3s[s] \in {"hdr", "req", "fin"}
  /\ \E keepalive \in {FALSE} \cup {ds[s].dconn} :
       \E e \in IF remove_and_get_blocked(World, s).ret # 0
                  THEN IE ELSE {DefaultInitiate} :
         CommitStream(read_event(
                    stream_close(http_stream_close_cb(World, s, keepalive, e),
                                 s, "OK"),
                    TRUE))
  /\ h3s' = [h3s EXCEPT ![s] = "closed"]

\* ------------------------------------------------ downstream connection events
ReadEventPossible(s, ev) ==
  CASE ev \in ResetCodes ->
         ds[s].response_state \in {"INITIAL", "HEADER_COMPLETE"}
    [] ev \in {"BAD_HEADER", "HEADER"} -> ds[s].response_state = "INITIAL"
    [] ev \in {"COMPLETE", "DATA"} ->
         ds[s].response_state \in {"HEADER_COMPLETE"}
    [] OTHER -> TRUE

\* The backend connection of s becomes readable; it delivers bodies of up to
\* cap bytes and the response heads RS.
DownstreamRead(s, cap, RS) ==
  /\ Running
  /\ ds[s].dconn
  /\ \E ev \in ReadEvents :
       /\ ReadEventPossible(s, ev)
       /\ \E x \in EventEnv(World, s, ev, cap, RS) :
            Commit(downstream_read(World, s, ev, x))
  /\ UNCHANGED h3s

\* The backend connection of s fails or times out.
DownstreamError(s) ==
  /\ Running
  /\ ds[s].dconn
  /\ \E events \in {"ERROR", "TIMEOUT"} :
       \E x \in EventEnv(World, s, events, 0, PlainResponse) :
         Commit(downstream_error(World, s, events, x))
  /\ UNCHANGED h3s

\* The backend connection of s is reset.
OnDownstreamReset(s) ==
  /\ Running
  /\ ds[s].dconn
  /\ \E r \in ResetEnv : Commit(on_downstream_reset(World, s, r))
  /\ UNCHANGED h3s

\* ------------------------------------------------------ response body actions
\* The runs of write_streams that move the response body: the iovecs on
\* offer, the bytes the transport accepts, and the outcomes of
\* shutdown_stream_read and handle_error.
BodyWrites ==
  { [DefaultWrite EXCEPT !.veccnt = veccnt, !.k = k,
                         !.shut_rd_ok = shut_rd_ok, !.he_ok = he_ok] :
      veccnt \in 1..MaxVec, k \in 0..MaxVec, shut_rd_ok \in BOOLEAN,
      he_ok \in BOOLEAN }

\* The write event serves the response of s, which nghttp3 has on offer;
\* E: the runs of write_streams considered.
WriteStreams(s, E) ==
  /\ H3Running
  /\ h3s[s] \in {"req", "fin"}
  /\ ds[s].submitted # 0
  /\ ~h3tx[s].blocked /\ ~h3tx[s].shut_wr
  /\ \E e \in E :
       LET w1 == on_write(World, s, e)
       IN /\ e.he_ok \/ w1.ret # 0
          /\ CommitStream(w1)
  /\ UNCHANGED h3s

\* The peer extends the flow-control window of s, which nghttp3 holds
\* blocked.
ExtendMaxStreamData(s) ==
  /\ H3Running
  /\ h3tx[s].blocked
  /\ \E ok \in BOOLEAN, he_ok \in BOOLEAN :
       LET w1 == extend_max_stream_data(World, s, ok)
       IN /\ he_ok \/ w1.ret # 0
          /\ CommitStream(read_event(w1, he_ok))
  /\ UNCHANGED h3s

\* The peer acknowledges n response body bytes of s.
AckedStreamDataOffset(s) ==
  /\ H3Running
  /\ h3tx[s].inflight > 0
  /\ \E n \in 1..h3tx[s].inflight, ok \in BOOLEAN, resume_ok \in BOOLEAN,
        he_ok \in BOOLEAN :
       LET w0 == [World EXCEPT !.tx[s].inflight = @ - n,
                               !.tx[s].acked = @ + n]
           w1 == acked_stream_data_offset(w0, s, n, ok, resume_ok)
       IN /\ he_ok \/ w1.ret # 0
          /\ ok \/ resume_ok
          /\ CommitStream(read_event(w1, he_ok))
  /\ UNCHANGED h3s

\* ------------------------------------------------------ cancellation actions
\* The application error codes a peer or nghttp3 cancels a stream with.
CancelCodes == {"H3_NO_ERROR", "H3_REQUEST_CANCELLED"}

\* The peer resets stream s.
StreamReset(s) ==
  /\ H3Running
  /\ h3s[s] \in {"hdr", "req", "fin"}
  /\ \E code \in CancelCodes, ok \in BOOLEAN, he_ok \in BOOLEAN :
       LET w1 == stream_reset(World, s, code, ok)
       IN /\ he_ok \/ w1.ret # 0
          /\ CommitStream(read_event(w1, he_ok))
  /\ UNCHANGED h3s

\* The peer asks to stop sending on stream s.
StreamStopSending(s) ==
  /\ H3Running
  /\ h3s[s] \in {"hdr", "req", "fin"}
  /\ \E code \in CancelCodes, ok \in BOOLEAN, he_ok \in BOOLEAN :
       LET w1 == stream_stop_sending(World, s, code, ok)
       IN /\ he_ok \/ w1.ret # 0
          /\ CommitStream(read_event(w1, he_ok))
  /\ UNCHANGED h3s

\* nghttp3, reading stream data, asks to stop the peer sending on s.
HttpStopSending(s) ==
  /\ H3Running
  /\ h3s[s] \in {"hdr", "req", "fin"}
  /\ \E code \in CancelCodes, liberr \in ShutdownResults,
        he_ok \in BOOLEAN :
       LET w1 == http_stop_sending_cb(World, s, code, liberr)
       IN /\ he_ok \/ w1.ret # 0
          /\ CommitStream(read_stream_data(w1, he_ok))
  /\ UNCHANGED h3s

\* nghttp3, reading stream data, asks to reset s.
HttpResetStream(s) ==
  /\ H3Running
  /\ h3s[s] \in {"hdr", "req", "fin"}
  /\ \E code \in CancelCodes, liberr \in ShutdownResults,
        he_ok \in BOOLEAN :
       LET w1 == http_reset_stream_cb(World, s, code, liberr)
       IN /\ he_ok \/ w1.ret # 0
          /\ CommitStream(read_stream_data(w1, he_ok))
  /\ UNCHANGED h3s

\* ------------------------------------------------------------ specifications
\* Streams whose response body is followed byte by byte.
NumBodyStreams == 1

BodyStreams == 1..NumBodyStreams

\* The streams of the dispatch and header specifications.
NumDispatchStreams == 2

DispatchStreams == 1..NumDispatchStreams

\* Request dispatch.
Next ==
  \/ Handshake
  \/ \E s \in DispatchStreams : HttpBeginRequestHeaders(s)
  \/ \E s \in DispatchStreams : HttpEndRequestHeaders(s, HeaderEnv, InitiateEnv)
  \/ \E s \in DispatchStreams : HttpStreamClose(s, InitiateEnv)
  \/ \E s \in DispatchStreams : DownstreamRead(s, 0, PlainResponse)
  \/ \E s \in DispatchStreams : DownstreamError(s)
  \/ \E s \in DispatchStreams : OnDownstreamReset(s)

Spec == Init /\ [][Next]_vars

\* Request header reception; the header block is sound, or has an unknown
\* method.
HdrVerdicts ==
  {DefaultHeaders}
  \cup { [DefaultHeaders EXCEPT !.method = "UNKNOWN", !.reply = r] :
           r \in ReplyOutcomes }

NextHdr ==
  \/ Handshake
  \/ \E s \in DispatchStreams : HttpBeginRequestHeaders(s)
  \/ \E s \in DispatchStreams : HttpRecvRequestHeader(s)
  \/ \E s \in DispatchStreams : HttpRecvRequestTrailer(s)
  \/ \E s \in DispatchStreams : HttpEndRequestHeaders(s, HdrVerdicts, {DefaultInitiate})
  \/ \E s \in DispatchStreams : HttpEndStream(s)
  \/ \E s \in DispatchStreams : HttpStreamClose(s, {DefaultInitiate})

SpecHdr == Init /\ [][NextHdr]_vars

\* Response body.
NextAck ==
  \/ Handshake
  \/ \E s \in BodyStreams : HttpBeginRequestHeaders(s)
  \/ \E s \in BodyStreams :
       HttpEndRequestHeaders(s, HeaderEnv, {DefaultInitiate})
  \/ \E s \in BodyStreams : HttpStreamClose(s, {DefaultInitiate})
  \/ \E s \in BodyStreams : DownstreamRead(s, MaxBody, PlainResponse)
  \/ \E s \in BodyStreams : DownstreamError(s)
  \/ \E s \in BodyStreams : WriteStreams(s, BodyWrites)
  \/ \E s \in BodyStreams : AckedStreamDataOffset(s)

SpecAck == Init /\ [][NextAck]_vars

\* Connection lifecycle.
NextConn ==
  \/ \E p \in Packets : OnRead(p, {DefaultClock})
  \/ OnWrite(PlainWrites, {"OK"}, {DefaultClock})
  \/ Timeout
  \/ IdleTimeout
  \/ HandlerDelete
  \/ WorkerGracefulShutdown
  \/ Prepare
  \/ ShutdownTimeout
  \/ GetNewConnectionId
  \/ RemoveConnectionId

SpecConn == Init /\ [][NextConn]_vars

\* Admission under the queue cap: sound requests on every stream; a
\* backend connection is there or is not.
CapEnv ==
  {DefaultInitiate, [DefaultInitiate EXCEPT !.getconn = "FAIL"]}

NextCap ==
  \/ Handshake
  \/ \E s \in Streams : HttpBeginRequestHeaders(s)
  \/ \E s \in Streams :
       HttpEndRequestHeaders(s, {DefaultHeaders}, CapEnv)
  \/ \E s \in Streams : HttpStreamClose(s, CapEnv)

SpecCap == Init /\ [][NextCap]_vars

\* Request and response heads: every kind of header block the library lets
\* through (a regular CONNECT has :authority and no :path, :protocol comes
\* with CONNECT, one of :authority and host is there), under every
\* configuration, and the response statuses that matter.
ReqHeaders ==
  { [DefaultHeaders EXCEPT !.method = m, !.authority = a.authority,
                           !.host = a.host, !.path = p] :
      m \in {"GET", "OPTIONS"},
      a \in {x \in [authority : BOOLEAN, host : BOOLEAN] :
               x.authority \/ x.host},
      p \in {"*", "/a/../b"} }
  \cup
  { [DefaultHeaders EXCEPT !.method = "CONNECT", !.path = "NONE"],
    [DefaultHeaders EXCEPT !.method = "CONNECT", !.path = "/a/../b",
                           !.protocol = "websocket"] }

ReqResponses ==
  { [status |-> 200, non_final |-> FALSE],
    [status |-> 101, non_final |-> FALSE],
    [status |-> 404, non_final |-> FALSE],
    [status |-> 100, non_final |-> TRUE] }

InitReq ==
  /\ ds = [s \in Streams |-> NoDownstream]
  /\ dq = [downstreams |-> {}, blocked |-> <<>>]
  /\ h3s = [s \in Streams |-> "idle"]
  /\ h3tx = [s \in Streams |-> NoTx]
  /\ \E c \in Configs : up = [InitUp EXCEPT !.config = c]
  /\ net = InitNet
  /\ rv = 0

NextReq ==
  \/ Handshake
  \/ \E s \in BodyStreams : HttpBeginRequestHeaders(s)
  \/ \E s \in BodyStreams :
       HttpEndRequestHeaders(s, ReqHeaders, {DefaultInitiate})
  \/ \E s \in BodyStreams : DownstreamRead(s, 0, ReqResponses)
  \/ \E s \in BodyStreams : HttpStreamClose(s, {DefaultInitiate})

SpecReq == InitReq /\ [][NextReq]_vars

\* Transmission: the write event sends packets, under both builds and both
\* kinds of congestion controller; the send quantum is below the payload
\* size, a few packets' worth, or above the cap.
Quanta == {1000, 16000, 100000}

\* The transport has a few full-size packets ready, or about as many as
\* the cap for a congestion controller other than BBR.
FullCounts == (0..2) \cup ((MaxPkts - 2)..MaxPkts)

TxWrites ==
  { [DefaultWrite EXCEPT !.quantum = q, !.full = f, !.short = sh,
                         !.pc = pc] :
      q \in Quanta, f \in FullCounts, sh \in BOOLEAN, pc \in {0, 2, 3} }
  \cup
  { [DefaultWrite EXCEPT !.res = "ngtcp2_conn_writev_stream"] }

InitTx ==
  /\ ds = [s \in Streams |-> NoDownstream]
  /\ dq = [downstreams |-> {}, blocked |-> <<>>]
  /\ h3s = [s \in Streams |-> "idle"]
  /\ h3tx = [s \in Streams |-> NoTx]
  /\ \E c \in TxConfigs : up = [InitUp EXCEPT !.config = c]
  /\ net = InitNet
  /\ rv = 0

NextTx ==
  \/ OnRead([DefaultPacket EXCEPT !.kind = "CRYPTO"], {DefaultClock})
  \/ OnWrite(TxWrites, {"OK"}, {DefaultClock})

SpecTx == InitTx /\ [][NextTx]_vars

\* Write scheduling: the write event under clocks that differ in the time
\* and in the transport's expiry.
SignalClocks ==
  { c \in Clocks :
      c.ts \in {1, 2} /\ c.idle_ts = MaxClock /\ c.expiry_ts \in {0, MaxClock} }

\* The send quantum is below the payload size or two packets' worth; the
\* transport has up to three full-size packets ready, then possibly a
\* short one and a packet more after that.
SignalQuanta == {1000, 3000}

SignalWrites ==
  { [DefaultWrite EXCEPT !.quantum = q, !.full = f, !.short = sh,
                         !.more = IF sh THEN m ELSE 0, !.pc = pc] :
      q \in SignalQuanta, f \in 0..3, sh \in BOOLEAN, m \in 0..1,
      pc \in {0, 2} }
  \cup
  { [DefaultWrite EXCEPT !.res = "ngtcp2_conn_writev_stream"] }

NextSignal ==
  \/ OnRead([DefaultPacket EXCEPT !.kind = "CRYPTO"], {DefaultClock})
  \/ OnWrite(SignalWrites, {"OK"}, SignalClocks)

SpecSignal == InitTx /\ [][NextSignal]_vars

\* Sending: every answer of quic_send_packet, to the packets of the write
\* event and to the CONNECTION_CLOSE of a failed one.
SendWrites ==
  { [DefaultWrite EXCEPT !.full = f, !.pc = pc] :
      f \in 0..2, pc \in {0, 2} }
  \cup
  { [DefaultWrite EXCEPT !.res = "ngtcp2_conn_writev_stream"] }

NextSend ==
  \/ OnRead([DefaultPacket EXCEPT !.kind = "CRYPTO"], {DefaultClock})
  \/ OnWrite(SendWrites, SendResults, {DefaultClock})

SpecSend == InitTx /\ [][NextSend]_vars

\* Timers: the expiries the transport reports are in the past, now, or in
\* the future.
TimerClocks ==
  { c \in Clocks :
      c.ts = 1 /\ c.idle_ts \in {0, 1, MaxClock}
               /\ c.expiry_ts \in {0, 1, MaxClock} }

TimerWrites ==
  { [DefaultWrite EXCEPT !.full = f, !.short = sh] :
      f \in 0..2, sh \in BOOLEAN }

NextTimer ==
  \/ OnRead([DefaultPacket EXCEPT !.kind = "CRYPTO"], TimerClocks)
  \/ OnWrite(TimerWrites, {"OK"}, TimerClocks)

SpecTimer == InitTx /\ [][NextTimer]_vars

\* The loop of write_streams: the transport's answers that make it go round
\* again, at most MaxTurns of them in a run, before the call that produces
\* a packet or fails.
MaxTurns == 2

Turns ==
  { [kind |-> "NGTCP2_ERR_STREAM_DATA_BLOCKED", n |-> -1],
    [kind |-> "NGTCP2_ERR_STREAM_SHUT_WR", n |-> -1],
    [kind |-> "NGTCP2_ERR_WRITE_MORE", n |-> 1] }

\* A stream the transport reported blocked or shut is not offered again in
\* the run: such an answer is the last for the stream.
TurnRuns ==
  { t \in UNION { [1..len -> Turns] : len \in 0..MaxTurns } :
      \A i \in 1..(Len(t) - 1) : t[i].kind = "NGTCP2_ERR_WRITE_MORE" }

\* The runs that end well produce a packet; those that fail do so after
\* at most one turn.
LoopWrites ==
  { [DefaultWrite EXCEPT !.veccnt = MaxVec, !.turns = t, !.k = k,
                         !.full = 1] :
      t \in TurnRuns, k \in 0..1 }
  \cup
  { [DefaultWrite EXCEPT !.veccnt = MaxVec, !.turns = t, !.res = res,
                         !.k = 1] :
      t \in { u \in TurnRuns : Len(u) <= 1 },
      res \in WriteResults \ {"OK", "nghttp3_conn_writev_stream"} }

NextWrite ==
  \/ Handshake
  \/ \E s \in BodyStreams : HttpBeginRequestHeaders(s)
  \/ \E s \in BodyStreams :
       HttpEndRequestHeaders(s, {DefaultHeaders}, {DefaultInitiate})
  \/ \E s \in BodyStreams : DownstreamRead(s, MaxBody, PlainResponse)
  \/ \E s \in BodyStreams : WriteStreams(s, LoopWrites)
  \/ \E s \in BodyStreams : ExtendMaxStreamData(s)
  \/ \E s \in BodyStreams : AckedStreamDataOffset(s)

SpecWrite == Init /\ [][NextWrite]_vars

\* Stream cancellation.
NextCancel ==
  \/ Handshake
  \/ \E s \in DispatchStreams : HttpBeginRequestHeaders(s)
  \/ \E s \in DispatchStreams : StreamReset(s)
  \/ \E s \in DispatchStreams : StreamStopSending(s)
  \/ \E s \in DispatchStreams : HttpStopSending(s)
  \/ \E s \in DispatchStreams : HttpResetStream(s)

SpecCancel == Init /\ [][NextCancel]_vars

\* ---------------------------------------------------- request body actions
\* The bytes a request stream receives.
MaxRecv == 3

\* The largest chunk recv_data is called with.
MaxChunk == 2

\* Stream data of s arrives after the request headers: nghttp3 consumes
\* framing bytes itself, hands datalen bytes of body to recv_data and
\* holds held bytes back.  The transport delivers no data of a stream whose
\* read side was shut down.  max: the bytes the stream receives at most.
RecvStreamBytes(s, max) ==
  /\ H3Running
  /\ h3s[s] = "req"
  /\ ~ds[s].stop_reading
  /\ ds[s].shutdown_code = "NONE"
  /\ \E framing \in 0..1, datalen \in 0..MaxChunk, held \in 0..1,
        push_ok \in BOOLEAN :
       /\ framing + datalen + held >= 1
       /\ up.quic[s].received + framing + datalen + held <= max
       /\ datalen = 0 => push_ok
       /\ LET w0 == [World EXCEPT
                       !.up.quic[s].received =
                         @ + framing + datalen + held,
                       !.up.quic[s].deferred = @ + held]
          IN CommitStream(read_stream_bytes(
                            IF datalen > 0
                              THEN http_recv_data_cb(w0, s, datalen, push_ok)
                              ELSE w0,
                            s, framing, TRUE))
  /\ UNCHANGED h3s

\* The first bytes of request stream s arrive, short of a complete HEADERS
\* frame header: nghttp3 creates the stream, consumes the n bytes and calls
\* nothing back, so that the stream has no Downstream.
StreamOpen(s) ==
  /\ H3Running
  /\ h3s[s] = "idle"
  /\ IF s = 1 THEN TRUE ELSE h3s[s - 1] # "idle"
  /\ \E n \in 0..1 :
       CommitStream(read_stream_bytes(
                      [World EXCEPT !.up.quic[s].received = @ + n],
                      s, n, TRUE))
  /\ h3s' = [h3s EXCEPT ![s] = "raw"]

\* The transport closes request stream s before a Downstream was made for
\* it: nghttp3 either does not know the stream or calls stream_close back
\* with null user data.
StreamClose(s) ==
  /\ H3Running
  /\ h3s[s] \in {"idle", "raw"}
  /\ IF s = 1 THEN TRUE ELSE h3s[s - 1] # "idle"
  /\ CommitStream(read_event(
                    IF h3s[s] = "idle"
                      THEN stream_close(World, s,
                                        "NGHTTP3_ERR_STREAM_NOT_FOUND")
                      ELSE stream_close(
                             http_stream_close_cb(World, s, FALSE,
                                                  DefaultInitiate),
                             s, "OK"),
                    TRUE))
  /\ h3s' = [h3s EXCEPT ![s] = "closed"]

RecvStreamData(s) == RecvStreamBytes(s, MaxRecv)

\* The downstream connection of s has written consumed bytes of the
\* buffered request body to the backend.
ResumeRead(s) ==
  /\ Running
  /\ s \in dq.downstreams
  /\ \E consumed \in 1..ds[s].unconsumed_body_length :
       Commit(upstream_resume_read(World, s, consumed))
  /\ UNCHANGED h3s

\* A read of stream s in which nghttp3 releases n of the bytes it held
\* back.
DeferredConsume(s) ==
  /\ H3Running
  /\ h3s[s] \in {"req", "fin"}
  /\ \E n \in 1..up.quic[s].deferred :
       CommitStream(read_stream_bytes(
                      http_deferred_consume(
                        [World EXCEPT !.up.quic[s].deferred = @ - n], s, n),
                      s, 0, TRUE))
  /\ UNCHANGED h3s

\* Request bodies.
NextFlow ==
  \/ Handshake
  \/ \E s \in BodyStreams : HttpBeginRequestHeaders(s)
  \/ \E s \in BodyStreams :
       HttpEndRequestHeaders(s, {DefaultHeaders}, {DefaultInitiate})
  \/ \E s \in BodyStreams : RecvStreamData(s)
  \/ \E s \in BodyStreams : HttpEndStream(s)
  \/ \E s \in BodyStreams : HttpStreamClose(s, {DefaultInitiate})
  \/ \E s \in BodyStreams : DownstreamRead(s, 0, PlainResponse)
  \/ \E s \in BodyStreams : StreamOpen(s)
  \/ \E s \in BodyStreams : StreamClose(s)
  \/ \E s \in BodyStreams : ResumeRead(s)
  \/ \E s \in BodyStreams : DeferredConsume(s)

SpecFlow == Init /\ [][NextFlow]_vars

\* The life of a stream: every callback of nghttp3 for it, from its first
\* bytes to its close, with one byte of request body and one of response
\* body.
LifeWrites == { [DefaultWrite EXCEPT !.k = k] : k \in 0..1 }

NextLife ==
  \/ Handshake
  \/ \E s \in BodyStreams : StreamOpen(s)
  \/ \E s \in BodyStreams : StreamClose(s)
  \/ \E s \in BodyStreams : HttpBeginRequestHeaders(s)
  \/ \E s \in BodyStreams :
       HttpEndRequestHeaders(s, {DefaultHeaders}, {DefaultInitiate})
  \/ \E s \in BodyStreams : RecvStreamBytes(s, 1)
  \/ \E s \in BodyStreams : HttpEndStream(s)
  \/ \E s \in BodyStreams : HttpStreamClose(s, {DefaultInitiate})
  \/ \E s \in BodyStreams : DownstreamRead(s, 1, PlainResponse)
  \/ \E s \in BodyStreams : WriteStreams(s, LifeWrites)
  \/ \E s \in BodyStreams : AckedStreamDataOffset(s)

SpecLife == Init /\ [][NextLife]_vars

\* The scratch buffer: the full-size packets that fill it under either
\* payload size, and one more.
FillCounts ==
  { ScratchBufferSize \div p + i :
      p \in {Ngtcp2MaxUdpPayloadSize, ShrpxQuicMaxUdpPayloadSize},
      i \in 0..1 }

BufWrites ==
  { [DefaultWrite EXCEPT !.quantum = q, !.path_mtu = p, !.full = f,
                         !.short = sh] :
      q \in Quanta,
      p \in {Ngtcp2MaxUdpPayloadSize, ShrpxQuicMaxUdpPayloadSize},
      f \in (0..2) \cup FillCounts, sh \in BOOLEAN }

NextBuf ==
  \/ OnRead([DefaultPacket EXCEPT !.kind = "CRYPTO"], {DefaultClock})
  \/ OnWrite(BufWrites, {"OK"}, {DefaultClock})

SpecBuf == InitTx /\ [][NextBuf]_vars
\* ================================================================ properties
Exists(s) == ds[s].dispatch_state # "NONE"

Deleted == up.alive = "deleted"

\* The connection's IDs: the transport's source CIDs and the hashed CID.
ConnectionIds == up.scids \cup {HashedCid}

\* Datagrams sent by the named sender.
SentBy(by) == {i \in DOMAIN net.sent : net.sent[i].by = by}

\* ------------------------------------------------------------ C1 (Spec)
DispatchStates == {"PENDING", "BLOCKED", "ACTIVE", "FAILURE"}

BlockedSet == {dq.blocked[i] : i \in 1..Len(dq.blocked)}

DispatchConsistent ==
  /\ \A s \in Streams :
       /\ ds[s].dispatch_state \in DispatchStates \cup {"NONE"}
       /\ Exists(s) <=> s \in dq.downstreams
       /\ Exists(s) <=> h3s[s] \in {"hdr", "req", "fin"}
  /\ \A i \in 1..Len(dq.blocked) :
       /\ ds[dq.blocked[i]].dispatch_state = "BLOCKED"
       /\ \A j \in 1..Len(dq.blocked) : dq.blocked[i] = dq.blocked[j] => i = j

DispatchEdge(a, b) ==
  \/ a = b
  \/ a = "NONE" /\ b = "PENDING"
  \/ a = "PENDING" /\ b \in {"ACTIVE", "BLOCKED", "FAILURE"}
  \/ a = "BLOCKED" /\ b \in {"ACTIVE", "FAILURE"}
  \/ a \in DispatchStates /\ b = "NONE"

DispatchStep ==
  \A s \in Streams : DispatchEdge(ds[s].dispatch_state, ds'[s].dispatch_state)

\* C1: from creation in begin_request_headers until removal a Downstream's
\* dispatch state is one of pending, blocked, active, failed; it is held by
\* the queue exactly once (and once at most on the blocked list, only while
\* blocked); and its state only moves pending -> {active, blocked, failed},
\* blocked -> {active, failed}, any state -> removed.
C1_DispatchDag == [](DispatchConsistent) /\ [][DispatchStep]_vars

\* A Downstream is active while another waits on the blocked list.
C1_Witness ==
  \E s, t \in Streams :
    /\ ds[s].dispatch_state = "ACTIVE"
    /\ ds[t].dispatch_state = "BLOCKED"
    /\ t \in BlockedSet
    /\ ds[t].started

\* ------------------------------------------------------------ C2 (Spec)
\* C2 as stated: every active Downstream has a downstream connection
\* attached or a complete response.
C2_ActiveHasConnOrComplete ==
  \A s \in Streams :
    ds[s].dispatch_state = "ACTIVE" =>
      ds[s].dconn \/ ds[s].response_state = "MSG_COMPLETE"

\* C2: every active Downstream has a downstream connection attached, or a
\* complete response, or its upstream stream was shut down by the Upstream,
\* or its connection was popped because the backend canceled it.
C2_ActiveHasConnOrCompleteOrShut ==
  \A s \in Streams :
    ds[s].dispatch_state = "ACTIVE" =>
      \/ ds[s].dconn
      \/ ds[s].response_state = "MSG_COMPLETE"
      \/ ds[s].shutdown_code # "NONE"
      \/ ds[s].canceled

\* An active Downstream lost its connection to a reset after the response
\* headers: no connection, response incomplete, stream shut down.
C2_Witness ==
  \E s \in Streams :
    /\ ds[s].dispatch_state = "ACTIVE"
    /\ ~ds[s].dconn
    /\ ds[s].response_state = "HEADER_COMPLETE"
    /\ ds[s].shutdown_code = "H3_INTERNAL_ERROR"

\* --------------------------------------------------------- C3 (SpecAck)
\* C3: every byte the transport acknowledged on a stream was passed to
\* nghttp3_conn_add_ack_offset; every ack callback drained exactly the
\* bytes it was called with (the assertion never fails) and resumed the
\* downstream read with the same count; and while the connection lives the
\* bytes resumed are the bytes acknowledged.
C3_AckDrainExact ==
  \A s \in Streams :
    /\ ~ds[s].drain_failed
    /\ h3tx[s].acked = h3tx[s].forwarded
    /\ ds[s].drained = ds[s].resumed
    /\ up.alive = "alive" => ds[s].resumed = h3tx[s].forwarded

\* A response body was acknowledged in two steps and is drained whole.
C3_Witness ==
  \E s \in Streams :
    /\ up.alive = "alive"
    /\ ds[s].recv_body_length = MaxBody
    /\ ds[s].drained = MaxBody
    /\ ds[s].body_len = 0
    /\ h3tx[s].eof

\* --------------------------------------------------------- C4 (SpecHdr)
\* The request on s offered more header fields, or more header bytes, than
\* the limits allow.
OverLimit(s) ==
  \/ ds[s].offered_fields > MaxRequestHeaderFields
  \/ ds[s].offered_bytes > RequestHeaderFieldBuffer

C5_RetryAlways ==
  up.retry \in {"RETRY", "REFUSED"} =>
    /\ Cardinality(SentBy("send_retry")) = 1
    /\ up.retry_close
    /\ rv = -1
    /\ Deleted => SentBy("on_handler_delete") = {} /\ net.close_wait = <<>>

\* C5: when the transport asks for a retry, on_read returns fatal.  If the
\* packet decodes and the worker is not shutting down gracefully, one Retry
\* is emitted, retry_close is set, and the deletion writes no
\* CONNECTION_CLOSE and creates no close-wait entry.  If the worker is
\* shutting down gracefully, a CONNECTION_REFUSED close is sent instead of
\* a Retry and retry_close stays unset, so the deletion takes the ordinary
\* path.  If the packet does not decode, nothing is sent and retry_close
\* stays unset.
C5_Retry ==
  /\ up.retry # "NONE" => rv = -1 /\ Deleted
  /\ up.retry = "RETRY" =>
       /\ Cardinality(SentBy("send_retry")) = 1
       /\ Len(net.sent) = 1
       /\ up.retry_close
       /\ net.close_wait = <<>>
       /\ up.conn_close = EmptyPacket
  /\ up.retry = "REFUSED" =>
       /\ net.graceful
       /\ SentBy("send_retry") = {}
       /\ Cardinality(SentBy("send_connection_close")) = 1
       /\ ~up.retry_close
       /\ Len(net.close_wait) = (IF up.del.wr_ok THEN 1 ELSE 0)
       /\ Cardinality(SentBy("on_handler_delete"))
            = (IF up.del.wr_ok THEN 1 ELSE 0)
  /\ up.retry = "UNDECODABLE" =>
       /\ SentBy("send_retry") = {}
       /\ SentBy("send_connection_close") = {}
       /\ ~up.retry_close
  /\ up.retry = "NONE" => SentBy("send_retry") = {} /\ ~up.retry_close

\* A Retry was sent and the handler deleted.
C5_Witness ==
  /\ up.retry = "RETRY"
  /\ Deleted
  /\ ~net.graceful

\* -------------------------------------------------------- C6 (SpecConn)
\* C6 as stated: the Upstream survives graceful shutdown; what it submits
\* to HTTP/3 is a shutdown notice, then a GOAWAY; the shutdown timer is
\* armed only with the notice submitted and has fired only with the GOAWAY
\* submitted; and once a loop iteration has seen the graceful shutdown the
\* notice is submitted.
C6_GracefulShutdownOrder ==
  /\ up.alive # "crashed"
  /\ up.h3log \in {<<>>, <<"NOTICE">>, <<"NOTICE", "GOAWAY">>}
  /\ up.shutdown_timer = "armed" => up.h3log = <<"NOTICE">>
  /\ (up.shutdown_timer = "fired" /\ up.alive = "alive") =>
       up.h3log = <<"NOTICE", "GOAWAY">>
  /\ (net.graceful /\ ~up.prep_active /\ up.alive = "alive") =>
       Len(up.h3log) >= 1

\* -------------------------------------------------------- C7 (SpecConn)
\* After the idle timer fired: idle_close is set, the handler deleted, none
\* of the connection's IDs registered, no CONNECTION_CLOSE written or sent,
\* no close-wait entry.
IdleClosed ==
  up.idle_fired =>
    /\ up.idle_close
    /\ Deleted
    /\ net.registry \cap ConnectionIds = {}
    /\ up.conn_close = EmptyPacket
    /\ net.sent = <<>>
    /\ net.close_wait = <<>>

\* idle_close is set by the step that deletes the handler.
IdleCloseStep ==
  (up'.idle_close /\ ~up.idle_close) =>
    (up.alive = "alive" /\ up'.alive = "deleted" /\ up'.idle_fired)

\* C7: when the idle timer fires, idle_close is set in the step that
\* deletes the handler; none of the connection's IDs (transport source
\* CIDs and the hashed CID) stays in the registry; no CONNECTION_CLOSE is
\* written or sent; no close-wait entry is created.
C7_IdleClose == []IdleClosed /\ [][IdleCloseStep]_vars

\* The idle timer fired on a connection that holds two transport CIDs.
C7_Witness ==
  /\ up.idle_fired
  /\ Deleted
  /\ Cardinality(up.scids) = 2
  /\ up.httpconn

\* -------------------------------------------------------- C8 (SpecConn)
\* The handler was deleted on the ordinary path.
OrdinaryDelete == Deleted /\ ~up.idle_close /\ ~up.retry_close

\* The close-wait entry the deletion leaves: all connection IDs, the
\* contents of conn_close_, three probe timeouts.
CloseWaitEntry ==
  [scids |-> ConnectionIds, pkt |-> up.conn_close, period |-> 3 * up.del.pto]

\* C8 as stated: an ordinary deletion writes and sends one CONNECTION_CLOSE
\* (NO_ERROR) unless the connection was closing or draining, and always
\* leaves one close-wait entry.
C8_CloseWaitAlways ==
  OrdinaryDelete =>
    /\ ~up.del.pre_closed =>
         /\ Cardinality(SentBy("on_handler_delete")) = 1
         /\ up.conn_close = [kind |-> "transport", code |-> "NO_ERROR"]
    /\ net.close_wait = <<CloseWaitEntry>>

\* C8: an ordinary deletion of a connection that was closing or draining
\* sends nothing and leaves one close-wait entry; otherwise it writes a
\* CONNECTION_CLOSE (NO_ERROR) and, if that succeeds, sends it once and
\* leaves one close-wait entry; if the write fails, it sends nothing and
\* leaves no close-wait entry.  The entry lasts 3*PTO and holds all the
\* connection's IDs and the contents of the CONNECTION_CLOSE buffer.  An
\* idle or retry close leaves no entry.
C8_CloseWait ==
  /\ OrdinaryDelete =>
       IF up.del.pre_closed
         THEN /\ SentBy("on_handler_delete") = {}
              /\ net.close_wait = <<CloseWaitEntry>>
       ELSE IF up.del.wr_ok
         THEN /\ Cardinality(SentBy("on_handler_delete")) = 1
              /\ up.conn_close = [kind |-> "transport", code |-> "NO_ERROR"]
              /\ net.close_wait = <<CloseWaitEntry>>
       ELSE /\ SentBy("on_handler_delete") = {}
            /\ net.close_wait = <<>>
  /\ ~OrdinaryDelete => net.close_wait = <<>>
  /\ Deleted => net.registry \cap ConnectionIds = {}

\* An established connection with two transport CIDs was deleted and
\* entered close-wait with the packet the deletion wrote.
C8_Witness ==
  /\ OrdinaryDelete
  /\ ~up.del.pre_closed
  /\ up.del.wr_ok
  /\ up.del.pto = MaxPto
  /\ Cardinality(up.scids) = 2
  /\ Len(net.close_wait) = 1

C10_CloseKindFollowsOrigin ==
  \A i \in SentBy("handle_error") :
    /\ net.sent[i].origin = "H3" => net.sent[i].kind = "application"
    /\ net.sent[i].origin = "QUIC" => net.sent[i].kind = "transport"

\* ------------------------------------------------------- C11 (SpecConn)
\* C11 as stated: once handshake_completed has returned success, exactly
\* one address-validation token has been submitted to the transport.
C11_ExactlyOneToken ==
  (up.hs.called /\ up.hs.ret = 0) => up.tokens = 1

\* C11: at most one address-validation token is ever submitted; none
\* before handshake_completed; once handshake_completed has returned
\* success, exactly one if generate_token succeeded and none if it failed;
\* when it returned failure, none.
C11_OneTokenIfGenerated ==
  /\ up.tokens <= 1
  /\ ~up.hs.called => up.tokens = 0
  /\ (up.hs.called /\ up.hs.ret = 0) =>
       up.tokens = (IF up.hs.token_ok THEN 1 ELSE 0)
  /\ (up.hs.called /\ up.hs.ret # 0) => up.tokens = 0

\* The handshake completed with its token submitted and the connection
\* lives on.
C11_Witness ==
  /\ up.hs.called
  /\ up.hs.ret = 0
  /\ up.tokens = 1
  /\ up.alive = "alive"
  /\ up.httpconn

\* ------------------------------------------------------- C12 (SpecConn)
\* C12: while the Upstream lives, the registry holds exactly the
\* connection IDs the transport currently advertises and the hashed CID,
\* whatever new_connection_id and remove_connection_id callbacks ran; once
\* the handler is deleted none of them is registered.
C12_RegistryExact ==
  /\ up.alive = "alive" => net.registry = ConnectionIds
  /\ Deleted => net.registry = {}

\* The first connection ID was retired and a later one issued: the
\* registry holds the hashed CID and the last one issued.
C12_Witness ==
  /\ up.alive = "alive"
  /\ up.issued > 1
  /\ 1 \notin up.scids
  /\ net.registry = {HashedCid, up.issued}

BadLength(s) == ds[s].bc.met = "BADLEN"

\* The response on s has trailers and is not upgraded.
TrailersDue(s) ==
  ds[s].bc.met \in {"TRAILERS", "TRAILER_FAIL"} /\ ~ds[s].bc.upgraded

\* On a body length violation on_downstream_body_complete shuts the stream
\* down with H3_GENERAL_PROTOCOL_ERROR, marks connection-close, submits no
\* trailers and does not resume.
BadLengthHandled ==
  \A s \in Streams :
    BadLength(s) =>
      /\ ds[s].bc.shut = "H3_GENERAL_PROTOCOL_ERROR"
      /\ ds[s].shutdown_code # "NONE"
      /\ ds[s].connection_close
      /\ ~ds[s].bc.trailers
      /\ ~ds[s].bc.resumed

\* C14 as stated: on a body length violation the stream is shut down with
\* H3_GENERAL_PROTOCOL_ERROR, connection-close is marked, no trailers are
\* submitted and the stream is not resumed; otherwise trailers (if any,
\* and not upgraded) are submitted and the stream is resumed.
C14_BodyCompleteAlwaysResumes ==
  /\ BadLengthHandled
  /\ \A s \in Streams :
       (ds[s].bc.met # "NONE" /\ ~BadLength(s)) =>
         /\ ds[s].bc.trailers <=> TrailersDue(s)
         /\ ds[s].bc.resumed
         /\ ds[s].bc.shut = "NONE"

\* C14: on a body length violation the stream is shut down with
\* H3_GENERAL_PROTOCOL_ERROR, connection-close is marked, no trailers are
\* submitted and the stream is not resumed.  Otherwise, when the response
\* is not upgraded and has trailers, they are submitted, and if that
\* submission fails the stream is not resumed; in every other case the
\* stream is resumed, with no shutdown by this function.
C14_BodyComplete ==
  /\ BadLengthHandled
  /\ \A s \in Streams :
       (ds[s].bc.met # "NONE" /\ ~BadLength(s)) =>
         /\ ds[s].bc.shut = "NONE"
         /\ IF TrailersDue(s) /\ ds[s].bc.met = "TRAILER_FAIL"
              THEN ~ds[s].bc.trailers /\ ~ds[s].bc.resumed
              ELSE /\ ds[s].bc.trailers <=> TrailersDue(s)
                   /\ ds[s].bc.resumed

\* A response whose body length violates its content length completed on
\* a stream the Upstream had not shut down before.
C14_Witness ==
  \E s \in Streams :
    /\ BadLength(s)
    /\ ds[s].shutdown_code = "H3_GENERAL_PROTOCOL_ERROR"
    /\ ds[s].response_state = "MSG_COMPLETE"
    /\ up.alive = "alive"

\* -------------------------------------------------------- C15 (SpecReq)
\* on_downstream_header_complete submitted the final response of s.
FinalSubmitted(s) == ds[s].striphd_flags # {}

\* The request of s is an Extended CONNECT for websocket and the backend
\* answered 101.
WebsocketAccepted(s) ==
  ds[s].req.connect_proto = "WEBSOCKET" /\ ds[s].http_status = 101

\* C15: a final response to a request carrying :protocol websocket with
\* downstream status 101 is sent upstream as :status 200 with
\* sec-websocket-accept stripped; for every other combination of connect
\* protocol and status the downstream status is sent unchanged and
\* sec-websocket-accept is not stripped.
C15_WebsocketStatus ==
  \A s \in Streams :
    FinalSubmitted(s) =>
      IF WebsocketAccepted(s)
        THEN /\ ds[s].submitted = 200
             /\ "HDOP_STRIP_SEC_WEBSOCKET_ACCEPT" \in ds[s].striphd_flags
        ELSE /\ ds[s].submitted = ds[s].http_status
             /\ "HDOP_STRIP_SEC_WEBSOCKET_ACCEPT" \notin ds[s].striphd_flags

\* A websocket request was answered 101 and 200 went upstream.
C15_Witness ==
  \E s \in Streams :
    /\ FinalSubmitted(s)
    /\ WebsocketAccepted(s)
    /\ ds[s].submitted = 200
    /\ ds[s].response_state = "HEADER_COMPLETE"

\* -------------------------------------------------------- C16 (SpecReq)
\* http_end_request_headers assigned the request of s from its header
\* block.
RequestAssigned(s) == ds[s].req.method # "NONE"

ProxyNoAlt == up.config.http2_proxy /\ up.config.alt_mode = "NONE"

ServerWideOptions(s) ==
  ds[s].req.fs.method = "OPTIONS" /\ ds[s].req.fs.path = "*"

\* C16 as stated: for OPTIONS with :path * the request path is left as *;
\* in proxy mode with no alt-mode the raw path is kept, and in all other
\* cases the path is the clean-path rewrite of :path.
C16_PathAsteriskKept ==
  \A s \in Streams :
    (RequestAssigned(s) /\ ds[s].req.fs.path # "NONE") =>
      ds[s].req.path =
        IF ServerWideOptions(s) THEN [rewrite |-> FALSE, value |-> "*"]
        ELSE IF ProxyNoAlt
          THEN [rewrite |-> FALSE, value |-> ds[s].req.fs.path]
        ELSE [rewrite |-> TRUE, value |-> ds[s].req.fs.path]

\* C16: for OPTIONS with :path * http_end_request_headers does not assign
\* the request path, which stays empty; for any other request that has a
\* :path and gets past the method and authority checks, the path is the
\* raw :path in proxy mode with no alt-mode and the clean-path rewrite of
\* :path otherwise; a request without :path keeps the empty path.
C16_PathRewrite ==
  \A s \in Streams :
    RequestAssigned(s) =>
      ds[s].req.path =
        IF ds[s].req.fs.path = "NONE" \/ ServerWideOptions(s) THEN NoPath
        ELSE IF ProxyNoAlt
          THEN [rewrite |-> FALSE, value |-> ds[s].req.fs.path]
        ELSE [rewrite |-> TRUE, value |-> ds[s].req.fs.path]

\* A server-wide OPTIONS request went to the backend with the empty path.
C16_Witness ==
  \E s \in Streams :
    /\ RequestAssigned(s)
    /\ ServerWideOptions(s)
    /\ ds[s].req.path = NoPath
    /\ ds[s].request_state = "HEADER_COMPLETE"
    /\ ds[s].started

\* -------------------------------------------------------- C17 (SpecReq)
\* http_end_request_headers saw the header block of s and knew its method.
HeadersSeen(s) == ds[s].req.fs.method \notin {"NONE", "UNKNOWN"}

\* The request of s was refused for want of an authority: the stream is
\* shut down with H3_GENERAL_PROTOCOL_ERROR, the request is not assigned
\* and start_downstream was not called.
Refused(s) ==
  /\ ds[s].shutdown_code = "H3_GENERAL_PROTOCOL_ERROR"
  /\ ~RequestAssigned(s)
  /\ ds[s].request_state = "INITIAL"
  /\ ~ds[s].started
  /\ ~ds[s].dconn

\* C17 as stated: in proxy mode with no alt-mode a non-CONNECT request with
\* neither :authority nor host is refused, and a request that carries an
\* authority or a host is not.
C17_HostSpared ==
  \A s \in Streams :
    HeadersSeen(s) =>
      /\ ( /\ ProxyNoAlt
           /\ ds[s].req.fs.method # "CONNECT"
           /\ ~ds[s].req.fs.authority
           /\ ~ds[s].req.fs.host ) => Refused(s)
      /\ (ds[s].req.fs.authority \/ ds[s].req.fs.host) => ~Refused(s)

\* C17: a request is refused (stream shut down with
\* H3_GENERAL_PROTOCOL_ERROR, start_downstream never called) exactly when
\* the mode is proxy with no alt-mode, the method is not CONNECT and
\* :authority is absent, whether or not a host field is there; a request
\* that carries :authority is not refused.
C17_AuthorityRequired ==
  \A s \in Streams :
    HeadersSeen(s) =>
      (Refused(s) <=> ( /\ ProxyNoAlt
                        /\ ds[s].req.fs.method # "CONNECT"
                        /\ ~ds[s].req.fs.authority ))

\* A request with a host field and no :authority was refused.
C17_Witness ==
  \E s \in Streams :
    /\ HeadersSeen(s)
    /\ Refused(s)
    /\ ds[s].req.fs.host
    /\ ~ds[s].req.fs.authority
    /\ h3s[s] = "req"

\* ------------------------------------------------------- C18 (SpecSend)
TooLarge == {"EINVAL", "EMSGSIZE"}

\* Whatever quic_send_packet answers a write event, the event leaves the
\* state it would leave had the send succeeded, but for the max UDP payload
\* size (and the record of the answer).
SendFailureLocal ==
  \A e \in SendWrites, snd \in SendResults :
    LET a == on_write(WorldOf(snd, DefaultClock), 0, e)
        b == on_write(WorldOf("OK", DefaultClock), 0, e)
    IN a = [b EXCEPT !.snd = snd,
                     !.up.sendrv = IF @ = "NONE" THEN @ ELSE snd,
                     !.up.max_udp_payload_size =
                       IF b.up.sendrv # "NONE" /\ snd \in TooLarge
                         THEN Ngtcp2MaxUdpPayloadSize ELSE @]

\* A handler lowers the max UDP payload size to the floor when a send of
\* its own failed with EINVAL or EMSGSIZE, and leaves it alone otherwise;
\* the size never grows.
SendStep ==
  /\ up'.max_udp_payload_size =
       IF up'.sendrv \in TooLarge
         THEN Ngtcp2MaxUdpPayloadSize ELSE up.max_udp_payload_size
  /\ up'.max_udp_payload_size <= up.max_udp_payload_size

\* C18: a datagram send that fails with EINVAL or EMSGSIZE lowers the max
\* UDP payload size of the Upstream to NGTCP2_MAX_UDP_PAYLOAD_SIZE and
\* changes nothing else (no last error, no connection close); any other
\* send failure leaves the size unchanged; the size is never raised.
C18_SendFailure == []SendFailureLocal /\ [][SendStep]_vars

\* A write event whose send failed with EINVAL or EMSGSIZE returned
\* success with the size at the floor and the connection as it was.
C18_Witness ==
  /\ up.sendrv \in TooLarge
  /\ up.ws.sends > 0
  /\ up.max_udp_payload_size = Ngtcp2MaxUdpPayloadSize
  /\ rv = 0
  /\ up.alive = "alive"
  /\ ~up.closing
  /\ up.last_error.code = "NO_ERROR"

\* ------------------------------------------------------ C19 (SpecTimer)
\* A timer is armed with expiry - now when the expiry is later than now
\* and with the minimum otherwise.
ArmedRight(t) ==
  t.repeat # 0 =>
    /\ t.repeat = IF t.expiry > t.ts THEN t.expiry - t.ts ELSE MinTimer
    /\ t.repeat > 0

\* C19: the idle timer is armed to idle_expiry - now, or to the minimum
\* when that is not positive, and the retransmit timer to expiry - now
\* with the same clamp, so the armed duration is positive; the idle timer
\* is re-armed after every fed packet and after every flush of sent
\* packets.
C19_TimersRearmed ==
  /\ ArmedRight(up.idle_timer)
  /\ ArmedRight(up.timer)
  /\ (up.tx_level # "INITIAL" /\ up.alive = "alive") =>
       up.idle_timer.repeat > 0
  /\ up.ws.sends > 0 => up.ws.rearm

\* --------------------------------------------------------- C20 (SpecTx)
\* C20: a write_streams call produces no more packets than the quotient of
\* the send quantum (capped at 64 KiB) and the max UDP payload size, and
\* no more than 10 unless the congestion controller is BBR; each HTTP/3
\* write call asks for at most 16 iovecs.
C20_PacketBound ==
  /\ up.ws.produced <= up.ws.quotient
  /\ ~up.config.bbr => up.ws.produced <= MaxPktcntNoBbr
  /\ up.ws.veccnt <= NumVec

\* -------------------------------------------------------------- C21, C22
\* The step read a datagram and ngtcp2_conn_read_pkt failed with an error
\* on_read hands to handle_error.
ReadFailed ==
  up.rd.res \notin {"NONE", "OK", "NGTCP2_ERR_RETRY"} \cup SilentErrors

SentSinceRead ==
  {i \in DOMAIN net.sent : i > up.rd.sent}

\* C22: when reading a datagram reports draining or drop, on_read returns
\* -1 without changing last_error_, without handle_error, without setting
\* retry_close_ or idle_close_ and without sending a datagram; for drop, no
\* datagram at all leaves for the connection because of the dropped packet,
\* the deletion of the handler that follows included.
C22_SilentRead ==
  up.rd.res \in SilentErrors =>
    /\ up.last_error = up.rd.prior
    /\ ~up.he_called
    /\ ~up.retry_close
    /\ ~up.idle_close
    /\ rv = -1
    /\ \A i \in SentSinceRead : net.sent[i].by = "on_handler_delete"
    /\ up.rd.res = "NGTCP2_ERR_DROP_CONN" => SentSinceRead = {}

\* ------------------------------------------------------------------- C23
\* The data source was called in this step.
DataRead == up.rdc.stream # 0

\* The data source found the response incomplete and nothing to send.
DataReadStarved == ~up.rdc.eof /\ up.rdc.left0 = 0

\* C23: the response body data source, called for a stream: with the
\* response incomplete and no unsent byte buffered it returns
\* NGHTTP3_ERR_WOULDBLOCK, disables the write timer and leaves
\* response_sent_body_length alone; with the response complete it sets EOF
\* and asks for the read half-close of the stream; in every case but the
\* first it resets the write timer and adds exactly the bytes it surrendered
\* to response_sent_body_length, and with the response incomplete it
\* surrenders at least one iovec of unsent bytes.
C23_DataSource ==
  DataRead =>
    LET c == up.rdc
        s == c.stream
    IN /\ DataReadStarved =>
            /\ c.ret = Nghttp3ErrWouldblock
            /\ c.wtimer = "disable"
            /\ ds[s].response_sent_body_length = c.len0
            /\ c.n = 0
            /\ ~c.shut_rd
       /\ c.eof => h3tx[s].eof /\ c.shut_rd
       /\ ~DataReadStarved =>
            /\ c.wtimer = "reset"
            /\ c.n <= c.left0
            /\ ds[s].response_sent_body_length = c.len0 + c.n
            /\ ~c.eof => c.n >= 1 /\ c.ret = c.n /\ ~c.shut_rd

\* The data source surrendered bytes of an incomplete response after having
\* surrendered some before.
C23_Witness ==
  /\ DataRead
  /\ ~up.rdc.eof
  /\ up.rdc.n >= 1
  /\ up.rdc.len0 >= 1
  /\ ds[up.rdc.stream].response_sent_body_length = up.rdc.len0 + up.rdc.n

\* ------------------------------------------------------------------- C24
\* on_downstream_reset was called in this step for an active Downstream
\* whose request could still be submitted again.
Resubmittable == up.rst.stream # 0 /\ up.rst.active /\ up.rst.ready

\* The retry is refused or finds no connection.
RetryDenied ==
  \/ up.rst.r.no_retry
  \/ up.rst.num_retry + 1 > MaxRetry
  \/ up.rst.r.getconn # "OK"

\* The status on_downstream_reset answers when it gives the request up.
ResetStatus ==
  IF RetryDenied /\ ~up.rst.r.no_retry /\ up.rst.num_retry + 1 <= MaxRetry
       /\ up.rst.r.getconn = "TLS_REQUIRED"
    THEN IF up.rst.r.redirectable THEN 308 ELSE 400
    ELSE 502

\* C24 as stated: on a reset of an active Downstream whose request can be
\* submitted again the retry counter grows by one; when the retry is
\* forbidden, the retry bound is reached or no connection is obtained, no
\* connection stays attached, the client gets 502 (308 when TLS is
\* required) and the upstream stream is reset; otherwise the request is on
\* a fresh connection.
C24_ResetAlwaysResetsStream ==
  Resubmittable =>
    LET s == up.rst.stream
    IN /\ ds[s].num_retry = up.rst.num_retry + 1
       /\ ds[s].num_retry <= MaxRetry + 1
       /\ IF RetryDenied
            THEN /\ ~ds[s].dconn
                 /\ ds[s].submitted \in {502, 308}
                 /\ ds[s].shutdown_code # "NONE"
            ELSE ds[s].dconn

\* C24, amended: the retry counter grows by one and never passes the bound
\* by more than one.  When the retry is forbidden, the bound is reached, no
\* connection is obtained or pushing the request headers on the fresh
\* connection fails, no connection stays attached and the client is
\* answered 502 (308 when TLS is required and the request can be
\* redirected, 400 when it cannot); the upstream stream is shut down with
\* H3_INTERNAL_ERROR only when that answer could not be submitted or the
\* read half-close after it failed, and is left alone otherwise.  In the
\* remaining case the request is on a fresh connection and nothing is
\* answered.
C24_Reset ==
  Resubmittable =>
    LET s == up.rst.stream
        r == up.rst.r
    IN /\ ds[s].num_retry = up.rst.num_retry + 1
       /\ ds[s].num_retry <= MaxRetry + 1
       /\ IF RetryDenied \/ ~r.push_ok
            THEN /\ ~ds[s].dconn
                 /\ ds[s].http_status = ResetStatus
                 /\ ds[s].submitted =
                      (IF r.reply = "SUBMIT_FAIL" THEN 0 ELSE ResetStatus)
                 /\ ds[s].shutdown_code =
                      (IF r.reply = "OK" THEN up.rst.shutdown_code
                       ELSE IF up.rst.shutdown_code = "NONE"
                         THEN "H3_INTERNAL_ERROR"
                       ELSE up.rst.shutdown_code)
            ELSE /\ ds[s].dconn
                 /\ ds[s].submitted = 0
                 /\ ds[s].shutdown_code = up.rst.shutdown_code
       /\ rv = 0

\* A request retried once is reset again: the bound is reached and the
\* client is answered 502 without the stream being reset.
C24_Witness ==
  /\ Resubmittable
  /\ up.rst.num_retry = MaxRetry
  /\ up.rst.r.getconn = "OK" /\ ~up.rst.r.no_retry
  /\ ds[up.rst.stream].submitted = 502
  /\ ds[up.rst.stream].shutdown_code = "NONE"
  /\ ~ds[up.rst.stream].dconn

\* ------------------------------------------------------------------- C25
\* start_downstream ran in this step.
Started == up.ini.stream # 0 /\ up.ini.by = "start"

\* initiate_downstream ran in this step and obtained no connection.
ConnectFailed ==
  up.ini.stream # 0 /\ up.ini.can /\ up.ini.e.getconn # "OK"

\* A Downstream becomes active in this step only through an
\* initiate_downstream that attached a connection and pushed the request
\* headers.
ActivationStep ==
  \A s \in Streams :
    (ds[s].dispatch_state # "ACTIVE" /\ ds'[s].dispatch_state = "ACTIVE") =>
      /\ up'.ini.stream = s
      /\ up'.ini.can
      /\ up'.ini.e.getconn = "OK"
      /\ up'.ini.e.mruby = "OK"
      /\ up'.ini.e.push_ok
      /\ ds'[s].dconn

\* A start the queue refuses leaves the Downstream blocked, without a
\* connection and unanswered.
BlockedUntouched ==
  (Started /\ ~up.ini.can) =>
    LET s == up.ini.stream
    IN /\ ds[s].dispatch_state = "BLOCKED"
       /\ s \in BlockedSet
       /\ ~ds[s].dconn
       /\ ds[s].submitted = 0
       /\ ds[s].request_state # "CONNECT_FAIL"

\* C25 as stated: start_downstream blocks the Downstream without asking
\* for a connection when the queue cannot activate it; otherwise
\* initiate_downstream runs, and when no connection is obtained the client
\* gets (if the answer can be submitted) 308 when TLS is required and 502
\* otherwise, the request state is CONNECT_FAIL and the
\* Downstream is marked failed; a Downstream is marked active only after a
\* connection was attached and the request headers were pushed.
C25_ConnectFailAnswers308Or502 ==
  /\ BlockedUntouched
  /\ (Started /\ ConnectFailed /\ up.ini.e.reply = "OK") =>
       LET s == up.ini.stream
       IN /\ ds[s].submitted =
               (IF up.ini.e.getconn = "TLS_REQUIRED" THEN 308 ELSE 502)
          /\ ds[s].request_state = "CONNECT_FAIL"
          /\ ds[s].dispatch_state = "FAILURE"

\* The answer of initiate_downstream when it obtains no connection.
ConnectFailStatus ==
  IF up.ini.e.getconn = "TLS_REQUIRED"
    THEN IF up.ini.e.redirectable THEN 308 ELSE 400
    ELSE 502

ConnectFailHandled ==
  ConnectFailed =>
    LET s == up.ini.stream
    IN /\ ds[s].http_status = ConnectFailStatus
       /\ ds[s].submitted =
            (IF up.ini.e.reply = "SUBMIT_FAIL" THEN 0 ELSE ConnectFailStatus)
       /\ (up.ini.e.reply # "OK") =>
            ds[s].shutdown_code = "H3_INTERNAL_ERROR"
       /\ ds[s].request_state = "CONNECT_FAIL"
       /\ ds[s].dispatch_state = "FAILURE"
       /\ ~ds[s].dconn

\* C25, amended: start_downstream blocks the Downstream without asking for
\* a connection when the queue cannot activate it; otherwise
\* initiate_downstream runs, and when no connection is obtained it answers
\* 502, or when TLS is required 308 if the request can be redirected and 400
\* if it cannot (shutting the stream down with H3_INTERNAL_ERROR when the
\* answer fails), sets the request state to CONNECT_FAIL and marks the
\* Downstream failed; a Downstream is marked active only after a connection
\* was attached and the request headers were pushed.
C25_StartDownstream ==
  /\ [](BlockedUntouched /\ ConnectFailHandled)
  /\ [][ActivationStep]_vars

\* A start found TLS required for a request that cannot be redirected and
\* answered 400.
C25_Witness ==
  /\ Started
  /\ ConnectFailed
  /\ up.ini.e.getconn = "TLS_REQUIRED"
  /\ ~up.ini.e.redirectable
  /\ ds[up.ini.stream].submitted = 400
  /\ ds[up.ini.stream].dispatch_state = "FAILURE"

\* ------------------------------------------------------------------- C26
\* The Downstreams that leave the blocked state in this step without being
\* removed.
Promoted ==
  {s \in Streams : /\ ds[s].dispatch_state = "BLOCKED"
                   /\ ds'[s].dispatch_state \notin {"BLOCKED", "NONE"}}

\* The Downstreams removed in this step.
Removed ==
  {s \in Streams : /\ ds[s].dispatch_state # "NONE"
                   /\ ds'[s].dispatch_state = "NONE"}

\* A step promotes at most one blocked Downstream, and only while removing
\* another one: the first of the blocked list that is not the one removed,
\* through initiate_downstream.
PromotionStep ==
  /\ Cardinality(Promoted) <= 1
  /\ \A s \in Promoted :
       /\ Cardinality(Removed) = 1
       /\ s \notin Removed
       /\ s = Head(SelectSeq(dq.blocked, LAMBDA x : x \notin Removed))
       /\ s \notin {dq'.blocked[i] : i \in 1..Len(dq'.blocked)}
       /\ up'.ini.stream = s
       /\ up'.ini.by = "remove"

\* The stream of s can close and its Downstream is not blocked.
Closable(s) ==
  /\ H3Running
  /\ h3s[s] \in {"hdr", "req", "fin"}
  /\ ds[s].dispatch_state # "BLOCKED"

\* A stream that can close while its Downstream is not blocked eventually
\* closes.
StreamsClose == \A s \in Streams : []<>(~Closable(s))

\* C26: removing a Downstream on stream close promotes at most one blocked
\* Downstream, the one remove_and_get_blocked returns, by running
\* initiate_downstream on it; and when the streams of the Downstreams that
\* are not blocked eventually close, every blocked Downstream is eventually
\* promoted or removed, also when a promoted Downstream obtains no
\* connection.
C26_Promotion ==
  /\ [][PromotionStep]_vars
  /\ StreamsClose =>
       \A s \in Streams :
         (ds[s].dispatch_state = "BLOCKED")
           ~> (ds[s].dispatch_state # "BLOCKED")

\* A promoted Downstream found no connection and was marked failed while
\* another Downstream is still blocked.
C26_Witness ==
  \E s, t \in Streams :
    /\ up.ini.stream = s
    /\ up.ini.by = "remove"
    /\ up.ini.e.getconn = "FAIL"
    /\ ds[s].dispatch_state = "FAILURE"
    /\ ds[t].dispatch_state = "BLOCKED"

\* ------------------------------------------------------------------- C27
\* A backend connection failed in this step before the response headers
\* were complete.
FailedBeforeHeader ==
  /\ up.dfail.stream # 0
  /\ up.dfail.events \in {"ERROR", "TIMEOUT"}
  /\ up.dfail.response_state \notin {"HEADER_COMPLETE", "MSG_COMPLETE"}

\* The backend reset the stream in this step.
BackendReset == up.dfail.stream # 0 /\ up.dfail.events \in ResetCodes

\* C27: when a backend connection fails before the response headers are
\* complete, the client is answered 408 for a timeout before the request
\* headers were sent to the backend, 504 for a timeout after they were
\* sent, and 502 for an error that is not a timeout; a backend reset with
\* REFUSED_STREAM shuts the upstream stream down with H3_REQUEST_REJECTED,
\* one with NO_ERROR with H3_NO_ERROR and one with any other code with
\* H3_INTERNAL_ERROR (a stream already shut down keeps its code).
C27_FailureStatus ==
  /\ FailedBeforeHeader =>
       LET s == up.dfail.stream
           status == IF up.dfail.events = "TIMEOUT"
                       THEN IF up.dfail.header_sent THEN 504 ELSE 408
                       ELSE 502
       IN /\ ds[s].http_status = status
          /\ (up.dfail.reply # "SUBMIT_FAIL") => ds[s].submitted = status
          /\ ~ds[s].dconn
  /\ BackendReset =>
       LET s == up.dfail.stream
           code == CASE up.dfail.events = "NGHTTP2_REFUSED_STREAM" ->
                          "H3_REQUEST_REJECTED"
                     [] up.dfail.events = "NGHTTP2_NO_ERROR" -> "H3_NO_ERROR"
                     [] OTHER -> "H3_INTERNAL_ERROR"
       IN /\ ds[s].shutdown_code =
               (IF up.dfail.shutdown_code = "NONE"
                  THEN code ELSE up.dfail.shutdown_code)
          /\ ~ds[s].dconn

\* The backend timed out before the request headers were sent and the
\* client was answered 408.
C27_Witness ==
  /\ FailedBeforeHeader
  /\ up.dfail.events = "TIMEOUT"
  /\ ~up.dfail.header_sent
  /\ ds[up.dfail.stream].submitted = 408

\* ------------------------------------------------------------------- C28
\* The write offset nghttp3 holds for the response of s.
WriteOffset(s) == h3tx[s].inflight + h3tx[s].acked

\* The bytes the transport accepted under NGTCP2_ERR_WRITE_MORE in the
\* turns ts.
RECURSIVE TurnBytes(_)
TurnBytes(ts) ==
  IF ts = <<>> THEN 0
  ELSE (IF Head(ts).kind = "NGTCP2_ERR_WRITE_MORE" THEN Head(ts).n ELSE 0)
         + TurnBytes(Tail(ts))

\* The loop of write_streams went round again in this step.
LoopRan == up.wt.stream # 0 /\ up.wt.turns # <<>>

\* C28: in write_streams the write offset of a stream in nghttp3 advances
\* by exactly ndatalen for every transport write that accepted stream data
\* (NGTCP2_ERR_WRITE_MORE, or a non-negative return with ndatalen >= 0)
\* and not at all for NGTCP2_ERR_STREAM_DATA_BLOCKED and
\* NGTCP2_ERR_STREAM_SHUT_WR, which block the stream in nghttp3 or shut its
\* write side down there, after which the transport is called again; any
\* other negative return sets last_error_ to a transport error, stops the
\* write watcher and calls handle_error.
C28_WriteLoop ==
  /\ \A s \in Streams :
       up.alive = "alive" => WriteOffset(s) = h3tx[s].accepted
  /\ (LoopRan /\ up.alive = "alive") =>
       LET s == up.wt.stream
           ts == up.wt.turns
           last == ts[Len(ts)]
       IN /\ WriteOffset(s) = up.wt.before + TurnBytes(ts) + up.wt.k
          /\ \A i \in 1..Len(ts) :
               ts[i].kind # "NGTCP2_ERR_WRITE_MORE" => ts[i].n = -1
          /\ last.kind = "NGTCP2_ERR_STREAM_DATA_BLOCKED" =>
               h3tx[s].blocked /\ up.wt.k = 0
          /\ last.kind = "NGTCP2_ERR_STREAM_SHUT_WR" =>
               h3tx[s].shut_wr /\ up.wt.k = 0
          /\ up.ws.calls > Len(ts)
  /\ up.wt.failed = "ngtcp2_conn_writev_stream" =>
       /\ up.last_error.type = "Transport"
       /\ up.ws.stopw
       /\ up.he_called
       /\ rv # 0

\* The transport took a byte under NGTCP2_ERR_WRITE_MORE and then reported
\* the stream blocked: the offset advanced by that byte, the stream is
\* blocked in nghttp3 and the run went on to send a packet.
C28_Witness ==
  /\ LoopRan
  /\ up.alive = "alive"
  /\ up.wt.turns = <<[kind |-> "NGTCP2_ERR_WRITE_MORE", n |-> 1],
                     [kind |-> "NGTCP2_ERR_STREAM_DATA_BLOCKED", n |-> -1]>>
  /\ WriteOffset(up.wt.stream) = up.wt.before + 1
  /\ h3tx[up.wt.stream].blocked
  /\ up.ws.sends = 1

\* ------------------------------------------------------------------- C29
\* The last run of write_streams met a packet whose path or ECN marking
\* differs from those of the first packet of its buffer.
PathChanged ==
  \E i \in 1..Len(up.ws.batches) :
    up.ws.batches[i].path # up.ws.batches[1].path

\* C29: in the build with UDP_SEGMENT no send_packet call carries packets
\* of different paths or ECN markings; when a packet's path or ECN marking
\* differs from those of the buffer's first packet, the buffered packets
\* are sent as one batch under the earlier path and marking, the new
\* packet is sent on its own under its own, and the run ends there with
\* signal_write called.
C29_OnePathPerBatch ==
  up.config.udp_segment =>
    /\ \A i \in 1..Len(up.ws.batches) :
         \A j \in 1..Len(up.ws.batches[i].pkts) :
           up.ws.batches[i].pkts[j].path = up.ws.batches[i].path
    /\ PathChanged =>
         /\ Len(up.ws.batches) = 2
         /\ Len(up.ws.batches[1].pkts) = up.ws.produced - 1
         /\ Len(up.ws.batches[2].pkts) = 1
         /\ up.ws.batches[2].pkts[1].path = up.ws.batches[2].path
         /\ up.ws.signal
         /\ ~up.ws.stopw

\* Two packets were buffered when the third came with another path or ECN
\* marking.
C29_Witness ==
  /\ up.config.udp_segment
  /\ PathChanged
  /\ Len(up.ws.batches[1].pkts) = 2

\* ------------------------------------------------------------------- C30
\* A cancellation callback ran in the step and the connection lives on.
CancelRan(by) == up'.can.by = by /\ up'.alive = "alive"

\* The claim as worded: a STOP_SENDING of the peer makes the transport's
\* shutdown_stream_read call and a RESET_STREAM of the peer its
\* shutdown_stream_write call, with the application error code.
C30_PeerCancelShutsTransport ==
  [][/\ (CancelRan("stream_stop_sending") /\ rv' = 0) =>
          h3tx'[up'.can.stream].stop = up'.can.code
     /\ (CancelRan("stream_reset") /\ rv' = 0) =>
          h3tx'[up'.can.stream].reset = up'.can.code]_vars

CancelStep ==
  LET c == up'.can
      s == c.stream
  IN /\ c.by \in {"stream_stop_sending", "stream_reset"} =>
          /\ (rv' = 0) <=> (c.liberr = "OK")
          /\ rv' = 0 => h3tx'[s] = [h3tx[s] EXCEPT !.shut_rd = TRUE]
     /\ c.by = "http_stop_sending" =>
          /\ (rv' = 0) <=> ~ngtcp2_err_is_fatal(c.liberr)
          /\ rv' = 0 =>
               h3tx'[s] = [h3tx[s] EXCEPT
                             !.stop = IF c.liberr = "OK" THEN c.code ELSE @]
     /\ c.by = "http_reset_stream" =>
          /\ (rv' = 0) <=> ~ngtcp2_err_is_fatal(c.liberr)
          /\ rv' = 0 =>
               h3tx'[s] = [h3tx[s] EXCEPT
                             !.reset = IF c.liberr = "OK" THEN c.code ELSE @]

\* C30: a STOP_SENDING and a RESET_STREAM of the peer each make nghttp3's
\* shutdown_stream_read call for the stream, without an error code, and
\* any failure of that call fails the callback; nghttp3's stop_sending and
\* reset_stream callbacks make the transport's shutdown_stream_read and
\* shutdown_stream_write calls for the stream with the application error
\* code they were given, and only a fatal error of these fails the
\* callback.
C30_Cancellation == [][CancelStep]_vars

\* nghttp3 asked to reset a stream, the transport's shutdown_stream_write
\* answered with an error that is not fatal, and the callback succeeded;
\* earlier the peer had reset the stream, which shut its read side in
\* nghttp3.
C30_Witness ==
  /\ up.can.by = "http_reset_stream"
  /\ up.can.liberr = "NGTCP2_ERR_STREAM_NOT_FOUND"
  /\ rv = 0
  /\ up.alive = "alive"
  /\ h3tx[up.can.stream].shut_rd
  /\ h3tx[up.can.stream].stop = "H3_REQUEST_CANCELLED"

\* ------------------------------------------------------------------- C31
\* The recv_data callback of this step was refused by the body pipe.
RecvFailed == up.rcv.stream # 0 /\ ~up.rcv.pushed

\* C31: when forwarding a request body chunk to the downstream fails in
\* recv_data, the stream is reset with H3_INTERNAL_ERROR unless the
\* response is already complete, the full length of the chunk is credited
\* to the stream-level and the connection-level flow control window (on
\* top of what nghttp3_conn_read_stream reported consumed), and the
\* callback reports success: the connection is not torn down.
C31_RecvDataFailure ==
  RecvFailed =>
    /\ rv = 0
    /\ Running
    /\ ~up.he_called
    /\ up.quic[up.rcv.stream].max_stream_offset
         = up.rcv.max_stream_offset + up.rcv.datalen + up.rcv.nconsumed
    /\ up.max_offset
         = up.rcv.max_offset + up.rcv.datalen + up.rcv.nconsumed
    /\ ds[up.rcv.stream].shutdown_code
         = IF up.rcv.response_state = "MSG_COMPLETE"
             THEN up.rcv.shutdown_code
             ELSE "H3_INTERNAL_ERROR"

\* A chunk of the largest size is refused while the response is under
\* way, in a read that also consumed framing bytes.
C31_Witness ==
  /\ RecvFailed
  /\ up.rcv.datalen = MaxChunk
  /\ up.rcv.nconsumed > 0
  /\ up.rcv.response_state # "MSG_COMPLETE"
  /\ ds[up.rcv.stream].shutdown_code = "H3_INTERNAL_ERROR"

\* ------------------------------------------------------------------- C32
\* C32: the response data source never signals EOF while response bytes
\* appended to the ring buffer remain unsurrendered: a call that sets the
\* EOF flag hands over every byte that was still unsent, however many
\* buffer chunks they occupy relative to the iovec count offered.
C32_EofAfterAllBytes ==
  (DataRead /\ up.rdc.eof) => up.rdc.n = up.rdc.left0

\* ------------------------------------------------------------------- C33
\* The room the packets of a send took in the scratch buffer: each was
\* written into max_udp_payload_size bytes after the one before.
BatchRoom(b) == Len(b.pkts) * up.ws.max_udp_payload_size

\* C33: in write_streams the bytes accumulated in the 64 KiB scratch
\* buffer between flushes never exceed its capacity, for every send
\* quantum, max UDP payload size and sequence of full-size packets.
C33_ScratchBufferBound ==
  \A i \in 1..Len(up.ws.batches) :
    BatchRoom(up.ws.batches[i]) <= ScratchBufferSize

\* ------------------------------------------------------------------- C34
\* C34: every HTTP/3-layer operation of the Upstream is performed only
\* where the HTTP/3 handle has been created, that is after the 1-RTT tx
\* keys were installed: no handler calls nghttp3 with a null httpconn_.
C34_H3HandleExists == ~up.h3null

\* C35: every closed client-initiated bidirectional stream has returned
\* exactly one unit of bidirectional stream credit to the peer.
C35_OneStreamCreditPerClose ==
  \A s \in Streams :
    (Running /\ h3s[s] = "closed") => up.quic[s].streams_bidi = 1

RECURSIVE StreamCredit(_)
\* The stream-level credit extended for the streams 1..n.
StreamCredit(n) ==
  IF n = 0 THEN 0 ELSE up.quic[n].max_stream_offset + StreamCredit(n - 1)

\* C36: the bytes credited for a stream never exceed the bytes received on
\* it, the connection-level credit equals the stream-level credit of all
\* streams, and http_stream_close credits the unconsumed body length and
\* leaves it zero.
C36_CreditWithinReceived ==
  /\ \A s \in Streams : up.quic[s].max_stream_offset <= up.quic[s].received
  /\ up.max_offset = StreamCredit(NumStreams)
  /\ up.cls.stream # 0 => up.cls.left = 0
  /\ \A s \in Streams : s \notin dq.downstreams
                            => ds[s].unconsumed_body_length = 0

\* A stream closes with request body bytes that were not consumed yet.
C36_Witness ==
  /\ up.cls.stream # 0
  /\ up.cls.unconsumed > 0
  /\ up.quic[up.cls.stream].max_stream_offset
       = up.quic[up.cls.stream].received

\* The last run of write_streams returned where the transport had nothing
\* more to write (nwrite == 0): one transport call more than packets, none
\* of them failed.
NothingLeft ==
  /\ up.wt.failed = "OK"
  /\ up.ws.calls = up.ws.produced + 1

\* The retransmit timer as reset_timer arms it under the clock of the
\* step's on_write.
Rearmed ==
  [repeat |-> TimerRepeat(up.ow.ts, up.ow.expiry), ts |-> up.ow.ts,
   expiry |-> up.ow.expiry]

\* A write_streams that returns without having exhausted the transport
\* has called signal_write, one that exhausted it has stopped the write
\* watcher instead, and on_write re-arms the retransmit timer after a
\* successful write_streams.
WriteScheduled ==
  (up.ow.ran /\ rv = 0) =>
    /\ up.ws.signal # up.ws.stopw
    /\ up.ws.stopw <=> NothingLeft
    /\ up.timer = Rearmed

\* The claim as worded: only the return taken when the transport has
\* nothing more to write stops the write watcher.
C37_OnlyExhaustionStops ==
  /\ (up.ow.ran /\ up.ws.stopw) => NothingLeft
  /\ WriteScheduled

\* C37: every successful return of write_streams that did not exhaust the
\* transport's output has called signal_write; the write watcher is
\* stopped by the return taken when the transport has nothing more to
\* write and by the return taken when the transport's write failed for
\* good, and by no other; on_write re-arms the retransmit timer after
\* every successful write_streams.
C37_WriteRescheduled ==
  /\ (up.ow.ran /\ up.ws.stopw) =>
       NothingLeft \/ up.wt.failed = "ngtcp2_conn_writev_stream"
  /\ WriteScheduled

\* A run that flushed at the packet cap: it signalled a write, left the
\* write watcher running, and the retransmit timer is armed.
C37_Witness ==
  /\ up.ow.ran
  /\ up.ws.produced = up.ws.max_pktcnt
  /\ up.ws.produced > 1
  /\ up.ws.signal
  /\ ~up.ws.stopw
  /\ rv = 0
  /\ up.timer = Rearmed

\* An over-limit trailer field of s was dropped: reading of s has stopped
\* and no reply completed the response, as the 431 of an over-limit header
\* field would have.
TrailerDropped(s) ==
  /\ s \in dq.downstreams
  /\ ds[s].stop_reading
  /\ ds[s].response_state # "MSG_COMPLETE"

\* C38: after an over-limit request trailer field was dropped, the end of
\* the stream is still processed: the request state becomes MSG_COMPLETE.
C38_EndStreamAfterDroppedTrailer ==
  \A s \in Streams :
    (Running /\ TrailerDropped(s) /\ h3s[s] = "fin")
      => ds[s].request_state = "MSG_COMPLETE"

\* C39: in the build with UDP_SEGMENT every packet of a send_packet call
\* except possibly the last has the max UDP payload size: a shorter packet
\* ends the batch and nothing is appended after it.
C39_ShortPacketEndsBatch ==
  up.config.udp_segment =>
    \A i \in 1..Len(up.ws.batches) :
      \A j \in 1..(Len(up.ws.batches[i].pkts) - 1) :
        ~up.ws.batches[i].pkts[j].short

\* Two full-size packets were buffered when a short one came: the three
\* went out as one batch and the run ended below the packet cap.
C39_Witness ==
  /\ up.config.udp_segment
  /\ Len(up.ws.batches) = 1
  /\ Len(up.ws.batches[1].pkts) = 3
  /\ up.ws.batches[1].pkts[3].short
  /\ up.ws.produced = 3
  /\ up.ws.max_pktcnt # 3
  /\ up.ws.signal

\* C40: no callback that dereferences a stream's Downstream (recv_data,
\* acked_stream_data, the response data source) is invoked for a stream
\* whose user data is null; where one of them ran, the Downstream is in
\* the queue.
C40_CallbacksMeetDownstream ==
  /\ ~up.null_ds
  /\ (Running /\ up.rcv.stream # 0) => up.rcv.stream \in dq.downstreams
  /\ (Running /\ up.rdc.stream # 0) => up.rdc.stream \in dq.downstreams

\* Body bytes of the request arrive on a stream whose response body was
\* read by the data source and acknowledged in part.
C40_Witness ==
  /\ Running
  /\ up.rcv.stream # 0
  /\ up.rcv.stream \in dq.downstreams
  /\ ds[up.rcv.stream].response_sent_body_length > 0
  /\ ds[up.rcv.stream].drained > 0

====
